---- MODULE Spec2Model ----
(***************************************************************************)
(* fh5dl: the asset-acquisition pipeline of cmd/main.go and                *)
(* internal/book/book.go.                                                  *)
(*                                                                         *)
(*   Spec         downloadImages (main.go 37-191) run on the descriptors   *)
(*                of Book.FindAllImages, with PageImage.Download           *)
(*                (book.go 847-998) as the worker body; the program may be *)
(*                run again on the files the previous run left.            *)
(*   SpecFind     Book.FindAllImages (book.go 827-845) on its own, over a  *)
(*                wider set of books.                                      *)
(*   SpecCapture  captureInteractivePages (main.go 193-496) with           *)
(*                CaptureInteractivePageQuiet (book.go 440-719).           *)
(*   SpecAssemble generatePDF and generateInteractivePDF (main.go 627-694) *)
(*                on the lists the two phases return.                      *)
(*   SpecPipeline downloadPdf2 (main.go 519-624) from call to return.      *)
(*                                                                         *)
(* A file path is modelled by the numbers that make its name: <<p, i>> for *)
(* "{p}-{i}.jpg" and the page number p for "interactive-{p}.png".  A URL   *)
(* is modelled by the parts the code inspects: whether it contains         *)
(* "/files/large/", its extension, and the file it names.  Directory       *)
(* set-up (MkdirAll / MkdirTemp) is not modelled.                          *)
(***************************************************************************)
EXTENDS Integers, Sequences, FiniteSets, TLC

----------------------------------------------------------------------------
(* Bounds of the model *)

\* pages of a book in Spec
MaxPages == 2
\* image URLs of one page, and in Spec of the whole book
MaxImages == 3
\* pages of a book in SpecFind
MaxFindPages == 3
\* args.Concurrency ranges over 1..MaxConcurrency
MaxConcurrency == 2
\* runs of the program on the same image folder
MaxRuns == 2
\* the request counter saturates here
MaxNetCount == 1
\* main.go 67 sets batchSize := 50; the model scales it down so that a book of
\* MaxImages images still needs more than one batch
DownloadBatchSize == 2

\* pages of a book, and image URLs of a page, in SpecAssemble
MaxAssemblePages == 3
MaxAssembleImages == 2
\* pages of a book, and image URLs of a page, in SpecPipeline
MaxPipelinePages == 3
MaxPipelineImages == 2

\* args.Concurrency values on which the capture limit is evaluated
MaxLimitArg == 6

\* pages of a book in SpecCapture
MaxCapturePages == 7
\* args.BatchSize ranges over 0..MaxBatchArg
MaxBatchArg == 2

\* ParseId is applied to texts of up to MaxIdLen characters
MaxIdLen == 10
\* a manifest page lists up to MaxFieldLen images, each name of up to
\* MaxNameLen parts
MaxFieldLen == 2
MaxNameLen == 3

\* the books whose capture is followed to its end have up to MaxLivePages pages
MaxLivePages == 4

\* main.go 560 limits the images of a book to 1000; the model to ImageCap
ImageCap == 3
\* downloadPdf2 is followed with --batch-size unset or up to MaxPipelineBatchArg
MaxPipelineBatchArg == 1

\* page and image numbers of the work items whose paths are compared
MaxFormatNumber == 11

\* goroutines of a batch whose files are followed
DownloadWriters == 2

\* characters of the URL and of an edited setting that are followed
MaxUiText == 1

\* book files in the books folder
MaxBookFiles == 3

\* the books they name
BatchBooks == {"A", "B"}

(* Program constants *)

\* book.go 514: maxRetries := 2
CaptureMaxRetries == 2
\* main.go 220: concurrencyLimit := 4
DefaultCaptureLimit == 4
\* main.go 226: batchSize := 8
DefaultCaptureBatch == 8

\* book.go 875: maxRetries := 3
DownloadMaxRetries == 3

VARIABLES
    book,             \* *book.Book: [Pages |-> sequence of Page]
    images,           \* []book.PageImage handed to downloadImages
    conc,             \* args.Concurrency (main.go 521-526 makes it >= 1)
    disk,             \* image files that exist: set of <<page, image>>
    dlPc,             \* position of downloadPdf2 / downloadImages
    batchIdx,         \* batchIdx of the loop at main.go 95
    nextIdx,          \* next element of images the range loop at main.go 112 hands to eg.Go
    worker,           \* per descriptor: the goroutine of main.go 115-166
    downloadedImages, \* main.go 63, in append order
    egErr,            \* the errgroup has recorded an error; batchCtx is cancelled
    mutex,            \* main.go 64: 0 when free, else the holder
    netRequests,      \* HTTP requests issued in this run (saturating)
    dlStatus,         \* "none" | "ok" | "err" | "panic"
    dlResult,         \* the list downloadImages returns
    run,              \* how many times the program has been started
    firstRun,         \* status and result of the previous run
    resumed,          \* every output file existed when this run's downloadImages began
    batchArg,         \* args.BatchSize
    shots,            \* pages p whose "interactive-{p}.png" exists
    capPc,            \* position of captureInteractivePages
    pagesToCapture,   \* main.go 239
    batchIndex,       \* batchIndex of the loop at main.go 261
    capNext,          \* next element of pagesToCapture the range loop at main.go 297 takes
    capWorker,        \* per element of pagesToCapture: the goroutine of main.go 334-394
    capturedPages,    \* main.go 251
    failedPages,      \* main.go 252
    capMutex,         \* main.go 253: 0 when free, -1 held by the caller, else the holder
    retryPos,         \* position in failedPages of the loop at main.go 443
    retryCall,        \* the CaptureInteractivePageQuiet call of main.go 451
    retryCalls,       \* per page: calls of main.go 451 made for it
    capStatus,        \* "none" | "ok" | "nocaptures"
    capResult,        \* the list captureInteractivePages returns
    interactive,      \* args.Interactive
    force,            \* args.Force
    pdf,              \* the file at pdfPath: "absent" | "old" | "new" | "broken"
    phase,            \* position of downloadPdf2
    phaseLog,         \* the stages downloadPdf2 has entered, in order
    encodeCall,       \* the generator that was called and what it returned
    encoderInput,     \* the paths handed to pdfcpu's ImportImagesFile
    encoderCalls,     \* calls of ImportImagesFile
    pipeStatus,       \* what downloadPdf2 returned
    idOrUrl,          \* args.Id: the text ParseId is given
    parsedId,         \* what ParseId returned: [err, id]
    imagesField,      \* "n" of one page of the manifest: pageInfo.Images
    imageUrls,        \* Page.ImageUrls that Get built from it
    ctxDone,          \* the context downloadPdf2 was called with is cancelled
    workItems,        \* the work items two goroutines in flight were given
    openedFiles,      \* the path each of them has created its file at
    dlCalls,          \* per goroutine: its call of PageImage.Download
    dlFiles,          \* per goroutine: the file at its fullPath
    batchCtxDone,     \* batchCtx (main.go 109) is cancelled
    ui,               \* the uiModel of the terminal UI
    uiQuit,           \* Update has returned tea.Quit
    txtFiles,         \* what the book files of the books folder hold, in order
    skipExisting,     \* settings.SkipExisting
    bookFolders,      \* the book IDs whose output folder exists
    bookPdfs,         \* the book IDs whose "{bookID}.pdf" exists
    filePos,          \* the file downloadBatch is at
    downloadedURLs,   \* the keys of the map of termui.go 493
    outcomes          \* per file processed: what became of it

dlVars == <<book, images, conc, disk, dlPc, batchIdx, nextIdx, worker,
            downloadedImages, egErr, mutex, netRequests, dlStatus, dlResult,
            run, firstRun, resumed>>

capVars == <<batchArg, shots, capPc, pagesToCapture, batchIndex, capNext,
             capWorker, capturedPages, failedPages, capMutex, retryPos, retryCall,
             retryCalls, capStatus, capResult>>

pipeVars == <<interactive, force, pdf, phase, phaseLog, encodeCall, encoderInput,
              encoderCalls, pipeStatus>>

fileVars == <<workItems, openedFiles>>

writeVars == <<dlCalls, dlFiles, batchCtxDone>>

uiVars == <<ui, uiQuit>>

batchVars == <<txtFiles, skipExisting, bookFolders, bookPdfs, filePos, downloadedURLs, outcomes>>

sideVars == <<fileVars, writeVars, uiVars, batchVars>>

argVars == <<idOrUrl, parsedId, imagesField, imageUrls, ctxDone, sideVars>>

\* everything but sideVars
mainVars == <<dlVars, capVars, pipeVars, idOrUrl, parsedId, imagesField, imageUrls,
              ctxDone>>

vars == <<dlVars, capVars, pipeVars, argVars>>

----------------------------------------------------------------------------
(* Helpers *)

Min(a, b) == IF a < b THEN a ELSE b

Range(s) == {s[i] : i \in DOMAIN s}

----------------------------------------------------------------------------
(* URLs and books *)

\* the two URL forms book.Get builds (book.go 794-798), with the extensions
\* PageImage.Download distinguishes (book.go 915)
UrlShapes ==
    { [large |-> TRUE,  ext |-> "jpg"],
      [large |-> FALSE, ext |-> "webp"] }

MkUrl(p, j, shape) == [file |-> <<p, j>>, large |-> shape.large, ext |-> shape.ext]

\* a book whose page i has counts[i] image URLs of the given shape
MkBook(counts, shape) ==
    [Pages |-> [i \in 1..Len(counts) |->
                  [Number |-> i,
                   ImageUrls |-> [j \in 1..counts[i] |-> MkUrl(i, j, shape)]]]]

Books(maxPages, maxImgs) ==
    { MkBook(counts, shape) :
        counts \in UNION { [1..n -> 0..maxImgs] : n \in 0..maxPages },
        shape \in UrlShapes }

----------------------------------------------------------------------------
(* Book.FindAllImages, book.go 827-845 *)

\* the inner loop over page.ImageUrls, with order as it stands on entry
PageImagesFrom(pages, i, order) ==
    [j \in 1..Len(pages[i].ImageUrls) |->
        [PageNumber   |-> i,
         ImageNumber  |-> j,
         OverallOrder |-> order + (j - 1),
         Url          |-> pages[i].ImageUrls[j]]]

RECURSIVE FindFrom(_, _, _)
FindFrom(pages, i, order) ==
    IF i > Len(pages) THEN <<>>
    ELSE PageImagesFrom(pages, i, order)
            \o FindFrom(pages, i + 1, order + Len(pages[i].ImageUrls))

\* order := 0 instead of order := 1
FindAllImagesZeroBased(b) == FindFrom(b.Pages, 1, 0)

FindAllImages(b) == FindFrom(b.Pages, 1, 1)

----------------------------------------------------------------------------
(* PageImage.Download, book.go 847-998 *)

\* "%d-%d.jpg" under the output folder (book.go 848, main.go 117)
ImagePath(img) == <<img.PageNumber, img.ImageNumber>>

\* book.go 911-918: the alternate URL forms tried after a non-200 answer
Candidates(url) ==
    (IF url.large THEN << [url EXCEPT !.large = FALSE] >> ELSE <<>>)
    \o (IF url.ext = "webp"
          THEN << [url EXCEPT !.ext = "jpg"], [url EXCEPT !.ext = "png"] >>
          ELSE <<>>)

\* book.go 931: strings.Replace(i.Url, "/files/large/", "/files/", 1)
AltUrl(url) == [url EXCEPT !.large = FALSE]

\* One pass of the retry loop body (book.go 886-993) for a descriptor whose URL
\* is url: every outcome the answers of the server and of the file system allow.
\*   ok        the file was written and the call returns (book.go 987)
\*   url       i.Url when the pass ends
\*   net       requests issued
\*   primary   what the request for i.Url met: "error", "200" or "non200"
\*   answered  the URL whose request answered 200, if any
\*   ioErr     creating or writing the file failed (book.go 952-984)
\* With the context cancelled client.Do fails at once (book.go 898-902).
AttemptOutcomes(url, cancelled) ==
    LET cands == Candidates(url)
        \* client.Do returns an error (book.go 899)
        transport == { [ok |-> FALSE, url |-> url, net |-> 1,
                        primary |-> "error", answered |-> <<>>, ioErr |-> FALSE] }
        \* 200 on the primary URL, then the write succeeds or fails (book.go 952-984)
        primary   == { [ok |-> w, url |-> url, net |-> 1,
                        primary |-> "200", answered |-> <<url>>, ioErr |-> ~w] :
                         w \in BOOLEAN }
        \* non-200, candidate k is the first to answer 200: goto OK (book.go 919-930)
        viaCand   == { [ok |-> w, url |-> cands[k], net |-> 1 + k,
                        primary |-> "non200", answered |-> <<cands[k]>>, ioErr |-> ~w] :
                         w \in BOOLEAN, k \in 1..Len(cands) }
        \* non-200, no candidate answers 200, then the request of book.go 931-947:
        \* a 200 swaps i.Url, and either way the pass ends at a continue
        trailing  == { [ok |-> FALSE,
                        url |-> IF t THEN AltUrl(url) ELSE url,
                        net |-> 2 + Len(cands),
                        primary |-> "non200",
                        answered |-> IF t THEN <<AltUrl(url)>> ELSE <<>>,
                        ioErr |-> FALSE] : t \in BOOLEAN }
    IN  IF cancelled THEN transport
        ELSE transport \cup primary \cup viaCand \cup trailing

----------------------------------------------------------------------------
(* downloadImages, main.go 37-191 *)

\* main.go 67-72
BatchSize(n) == IF n <= DownloadBatchSize THEN n ELSE DownloadBatchSize

NumBatches(n) == (n + BatchSize(n) - 1) \div BatchSize(n)

\* main.go 96-102, as 1-based positions of images
BatchFirst(b, n) == b * BatchSize(n) + 1

BatchLast(b, n) == Min((b + 1) * BatchSize(n), n)

\* a goroutine's locals: where it stands, attempt of book.go 879, the Url of
\* its copy of the descriptor (main.go 113) and the seconds it has slept at
\* book.go 883, sleep by sleep; the locals are dropped with their last use
IdleWorker(url) == [pc |-> "idle", attempt |-> 0, url |-> url, slept |-> <<>>]

At(i, pc) == [IdleWorker(images[i].Url) EXCEPT !.pc = pc]

Finished(w) == w.pc \in {"idle", "done", "failed", "barfailed"}

\* an errgroup that counts no goroutine
NoGoroutine == {}

\* goroutines of the errgroup that have not returned
Active == {i \in DOMAIN worker : ~Finished(worker[i])}

\* book.DownloadedImage (main.go 121-127, book.go 853-859 and 987-993)
Downloaded(img, url) ==
    [PageNumber   |-> img.PageNumber,
     ImageNumber  |-> img.ImageNumber,
     OverallOrder |-> img.OverallOrder,
     Url          |-> url,
     FullPath     |-> ImagePath(img)]

\* sort.Slice by OverallOrder (main.go 182-184), as an insertion sort
RECURSIVE InsertByOrder(_, _)
InsertByOrder(sorted, x) ==
    IF sorted = <<>> THEN <<x>>
    ELSE IF x.OverallOrder < Head(sorted).OverallOrder THEN <<x>> \o sorted
    ELSE <<Head(sorted)>> \o InsertByOrder(Tail(sorted), x)

RECURSIVE SortFrom(_, _)
SortFrom(s, acc) ==
    IF s = <<>> THEN acc ELSE SortFrom(Tail(s), InsertByOrder(acc, Head(s)))

\* the list returned as it was appended
Unsorted(s) == s

SortByOverallOrder(s) == SortFrom(s, <<>>)

Saturate(n) == Min(n, MaxNetCount)

\* a caller that downloads every image of the book
ImagesToDownloadAll(all, ph) == all

\* main.go 556-563: downloadPdf2 cuts what FindAllImages returned to its
\* first 1000 elements, here ImageCap; FindAllImages followed on its own
\* returns every descriptor
ImagesToDownload(all, ph) ==
    IF ph = "images" /\ Len(all) > ImageCap THEN SubSeq(all, 1, ImageCap) ELSE all

\* downloadPdf2 calls b.FindAllImages (main.go 556) and limits the list
\* (main.go 560-563)
FindAllImagesCall ==
    /\ dlPc = "find"
    /\ images' = ImagesToDownload(FindAllImages(book), phase)
    /\ dlPc' = "start"
    /\ UNCHANGED <<book, conc, disk, batchIdx, nextIdx, worker, downloadedImages,
                   egErr, mutex, netRequests, dlStatus, dlResult, run, firstRun,
                   resumed,
                   capVars, pipeVars, argVars>>

\* main.go 63-72: with no image batchSize is 0 and the division at main.go 72
\* is a division by zero, a run-time panic
DownloadBegin ==
    /\ dlPc = "start"
    /\ resumed' = (\A i \in DOMAIN images : ImagePath(images[i]) \in disk)
    /\ downloadedImages' = <<>>
    /\ worker' = [i \in DOMAIN images |-> IdleWorker(images[i].Url)]
    /\ batchIdx' = 0
    /\ nextIdx' = 1
    /\ egErr' = FALSE
    /\ IF Len(images) = 0
          THEN dlPc' = "done" /\ dlStatus' = "panic"
          ELSE dlPc' = "batch" /\ dlStatus' = "none"
    /\ UNCHANGED <<book, images, conc, disk, mutex, netRequests, dlResult, run,
                   firstRun,
                   capVars, pipeVars, argVars>>

\* eg.Go (main.go 115) for the next descriptor of the batch: it blocks while
\* args.Concurrency goroutines are running (eg.SetLimit, main.go 110), and it
\* starts the goroutine whether or not an earlier one has failed
Go(i) ==
    /\ dlPc = "batch"
    /\ i = nextIdx
    /\ i <= BatchLast(batchIdx, Len(images))
    /\ Cardinality(Active) < conc
    /\ worker' = [worker EXCEPT ![i].pc = "stat"]
    /\ nextIdx' = i + 1
    /\ UNCHANGED <<book, images, conc, disk, dlPc, batchIdx, downloadedImages,
                   egErr, mutex, netRequests, dlStatus, dlResult, run, firstRun,
                   resumed,
                   capVars, pipeVars, argVars>>

\* a goroutine that downloads its image whether the file is there or not
StatIgnoringFile(i) ==
    /\ worker[i].pc = "stat"
    /\ worker' = [worker EXCEPT ![i].pc = "attempt"]
    /\ UNCHANGED <<book, images, conc, disk, dlPc, batchIdx, nextIdx,
                   downloadedImages, egErr, mutex, netRequests, dlStatus, dlResult,
                   run, firstRun, resumed,
                   capVars, pipeVars, argVars>>

\* os.Stat(expectedPath) at main.go 118; when the file is missing the goroutine
\* calls image.Download (main.go 139), which looks for the file once more
\* (book.go 851-860) before its retry loop
Stat(i) ==
    /\ worker[i].pc = "stat"
    /\ worker' = [worker EXCEPT ![i].pc =
                     IF ImagePath(images[i]) \in disk THEN "lock" ELSE "attempt"]
    /\ UNCHANGED <<book, images, conc, disk, dlPc, batchIdx, nextIdx,
                   downloadedImages, egErr, mutex, netRequests, dlStatus, dlResult,
                   run, firstRun, resumed,
                   capVars, pipeVars, argVars>>

\* a pause of two seconds before every retry
BackoffConstant(attempt) == IF attempt > 0 THEN 2 ELSE 0

\* book.go 880-884: the seconds slept at the head of the pass numbered attempt
Backoff(attempt) == IF attempt > 0 THEN 2 ^ attempt ELSE 0

\* what a failed pass of the retry loop leads to: the next pass, or, after
\* maxRetries passes, the error of book.go 997
AfterFailedAttempt(attempt) ==
    IF attempt + 1 < DownloadMaxRetries THEN "attempt" ELSE "failed"

\* one pass of the retry loop of book.go 879-994, from the request on; when
\* the pass fails and another follows, the sleep that opens the next pass
\* (book.go 880-884) is taken here as well.  An error returned by the goroutine
\* is recorded by the errgroup, which cancels batchCtx
Attempt(i) ==
    /\ worker[i].pc = "attempt"
    /\ \E o \in AttemptOutcomes(worker[i].url, egErr \/ ctxDone) :
          /\ netRequests' = Saturate(netRequests + o.net)
          /\ IF o.ok
                THEN /\ disk' = disk \cup {ImagePath(images[i])}
                     /\ worker' = [worker EXCEPT ![i] = [At(i, "lock") EXCEPT !.url = o.url]]
                     /\ egErr' = egErr
                ELSE /\ disk' = disk
                     /\ worker' = [worker EXCEPT ![i] =
                                     IF AfterFailedAttempt(worker[i].attempt) = "failed"
                                       THEN At(i, "failed")
                                       ELSE [pc |-> "attempt",
                                             attempt |-> worker[i].attempt + 1,
                                             url |-> o.url,
                                             slept |-> Append(worker[i].slept,
                                                         Backoff(worker[i].attempt + 1))]]
                     /\ egErr' = (egErr \/
                                   AfterFailedAttempt(worker[i].attempt) = "failed")
    /\ UNCHANGED <<book, images, conc, dlPc, batchIdx, nextIdx, downloadedImages,
                   mutex, dlStatus, dlResult, run, firstRun, resumed,
                   capVars, pipeVars, argVars>>

\* a lock that is taken whether it is free or not
LockAnyway(i) ==
    /\ worker[i].pc = "lock"
    /\ mutex' = i
    /\ worker' = [worker EXCEPT ![i].pc = "append"]
    /\ UNCHANGED <<book, images, conc, disk, dlPc, batchIdx, nextIdx,
                   downloadedImages, egErr, netRequests, dlStatus, dlResult, run,
                   firstRun, resumed,
                   capVars, pipeVars, argVars>>

\* mutex.Lock() at main.go 120 and 144
Lock(i) ==
    /\ worker[i].pc = "lock"
    /\ mutex = 0
    /\ mutex' = i
    /\ worker' = [worker EXCEPT ![i].pc = "append"]
    /\ UNCHANGED <<book, images, conc, disk, dlPc, batchIdx, nextIdx,
                   downloadedImages, egErr, netRequests, dlStatus, dlResult, run,
                   firstRun, resumed,
                   capVars, pipeVars, argVars>>

\* an append that is dropped
AppendLost(list, rec) == list

\* downloadedImages = append(downloadedImages, ...) at main.go 121 and 145
AppendImage(list, rec) == Append(list, rec)

\* the append and mutex.Unlock() (main.go 121-128 and 145-146), then
\* mainBar.Add(1) (main.go 131 and 161): the progress bar may report an error,
\* which the goroutine returns
AppendUnlock(i) ==
    /\ worker[i].pc = "append"
    /\ mutex = i
    /\ downloadedImages' =
          AppendImage(downloadedImages, Downloaded(images[i], worker[i].url))
    /\ mutex' = 0
    /\ \E barOk \in BOOLEAN :
          /\ worker' = [worker EXCEPT ![i] = At(i, IF barOk THEN "done" ELSE "barfailed")]
          /\ egErr' = (egErr \/ ~barOk)
    /\ UNCHANGED <<book, images, conc, disk, dlPc, batchIdx, nextIdx,
                   netRequests, dlStatus, dlResult, run, firstRun, resumed,
                   capVars, pipeVars, argVars>>

\* the context downloadPdf2 was given is cancelled, or its deadline passes,
\* while a batch is in progress; batchCtx (main.go 109) is derived from it
CancelParent ==
    /\ dlPc = "batch"
    /\ ~ctxDone
    /\ ctxDone' = TRUE
    /\ UNCHANGED <<dlVars, capVars, pipeVars, sideVars, idOrUrl, parsedId, imagesField, imageUrls>>

\* a wait that goes on to the next batch whatever the batch returned
AfterWaitIgnoringError(err, b, n) ==
    IF b + 1 < NumBatches(n) THEN "batch" ELSE "close"

\* main.go 169-175 and the loop condition at main.go 95: where eg.Wait() leads
AfterWait(err, b, n) ==
    IF err THEN "done"
    ELSE IF b + 1 < NumBatches(n) THEN "batch" ELSE "close"

\* eg.Wait() (main.go 169), reached once every descriptor of the batch has been
\* handed to eg.Go; it returns when every goroutine has returned
Wait ==
    /\ dlPc = "batch"
    /\ nextIdx > BatchLast(batchIdx, Len(images))
    /\ Active = {}
    /\ LET to == AfterWait(egErr, batchIdx, Len(images))
       IN  /\ dlPc' = to
           /\ batchIdx' = IF to = "batch" THEN batchIdx + 1 ELSE batchIdx
           /\ egErr' = IF to = "batch" THEN FALSE ELSE egErr
           /\ dlStatus' = IF to = "done" THEN "err" ELSE dlStatus
           /\ dlResult' = IF to = "done" THEN <<>> ELSE dlResult
    /\ UNCHANGED <<book, images, conc, disk, nextIdx, worker, downloadedImages,
                   mutex, netRequests, run, firstRun, resumed,
                   capVars, pipeVars, argVars>>

\* mainBar.Close() (main.go 177-179), the sort (main.go 182-184) and the return
Return ==
    /\ dlPc = "close"
    /\ \E closeOk \in BOOLEAN :
          /\ dlStatus' = IF closeOk THEN "ok" ELSE "err"
          /\ dlResult' = IF closeOk THEN SortByOverallOrder(downloadedImages) ELSE <<>>
    /\ dlPc' = "done"
    /\ UNCHANGED <<book, images, conc, disk, batchIdx, nextIdx, worker,
                   downloadedImages, egErr, mutex, netRequests, run, firstRun,
                   resumed,
                   capVars, pipeVars, argVars>>

\* the program is started again with the same arguments (the same book, the
\* same --image-out folder): the files of the previous run are still there
Rerun ==
    /\ dlPc = "done"
    /\ run < MaxRuns
    /\ run' = run + 1
    /\ firstRun' = [status |-> dlStatus, result |-> dlResult]
    /\ dlPc' = "find"
    /\ images' = <<>>
    /\ worker' = <<>>
    /\ downloadedImages' = <<>>
    /\ batchIdx' = 0
    /\ nextIdx' = 1
    /\ egErr' = FALSE
    /\ netRequests' = 0
    /\ dlStatus' = "none"
    /\ dlResult' = <<>>
    /\ resumed' = FALSE
    /\ UNCHANGED <<book, conc, disk, mutex, capVars, pipeVars, argVars>>

----------------------------------------------------------------------------
(* CaptureInteractivePageQuiet, book.go 440-719 *)

\* one call: pc is "stat" (about to os.Stat, book.go 453), "run" (about to
\* drive the browser, book.go 519-692), "write" (about to os.WriteFile,
\* book.go 708), "ok" or "err" (returned); "none" when no call is open.
\* expired: the deadline of timeoutCtx (book.go 510) has passed
NoCall == [pc |-> "none", attempt |-> 0, expired |-> FALSE]

NewCall == [pc |-> "stat", attempt |-> 0, expired |-> FALSE]

\* book.go 493-511: the call makes its own allocator and browser context
\* after the check of book.go 453, and the deferred cancels tear both down
\* when it returns
SessionOpen(q) == q.pc \in {"run", "write"}

\* a loop that goes on until a pass yields a screenshot
AfterFailedRenderAgain(attempt) == "run"

\* book.go 682-702: a pass that yields no screenshot (an error of chromedp.Run
\* or an empty buffer) is followed by another pass until maxRetries passes
\* have been made; then the call returns an error
AfterFailedRender(attempt) ==
    IF attempt + 1 < CaptureMaxRetries THEN "run" ELSE "err"

\* the call after a failed pass.  timeoutCtx is made once, before the loop
\* over the passes (book.go 510, 519), so a deadline that has passed in one
\* pass has passed in the next
FailedRender(q, timedOut) ==
    [pc |-> AfterFailedRender(q.attempt),
     attempt |-> IF AfterFailedRender(q.attempt) = "run" THEN q.attempt + 1 ELSE 0,
     expired |-> AfterFailedRender(q.attempt) = "run" /\ (q.expired \/ timedOut)]

\* the steps a call in state q for page p can take when the files in files
\* exist: the call's next state and the files afterwards.  A pass under a
\* deadline that has passed fails at once (chromedp.Run returns the context's
\* error, book.go 528); another pass yields the screenshot, fails, or lasts
\* until the deadline.  A failed os.WriteFile may have created the file.
QuietSteps(q, p, files) ==
    IF q.pc = "stat"
      THEN { [q |-> [pc |-> IF p \in files THEN "ok" ELSE "run", attempt |-> 0,
                     expired |-> FALSE],
              files |-> files] }
    ELSE IF q.pc = "run"
      THEN IF q.expired
             THEN { [q |-> FailedRender(q, TRUE), files |-> files] }
             ELSE { [q |-> [pc |-> "write", attempt |-> 0, expired |-> FALSE],
                     files |-> files] }
                    \cup { [q |-> FailedRender(q, timedOut), files |-> files] :
                             timedOut \in BOOLEAN }
    ELSE IF q.pc = "write"
      THEN { [q |-> [pc |-> "ok",  attempt |-> 0, expired |-> FALSE],
              files |-> files \cup {p}],
             [q |-> [pc |-> "err", attempt |-> 0, expired |-> FALSE], files |-> files],
             [q |-> [pc |-> "err", attempt |-> 0, expired |-> FALSE],
              files |-> files \cup {p}] }
    ELSE {}

----------------------------------------------------------------------------
(* captureInteractivePages, main.go 193-496 *)

PageCount == Len(book.Pages)

\* a capture pool of the default size whatever args.Concurrency is
ConcurrencyLimitDefault(c) == DefaultCaptureLimit

\* main.go 220-223
ConcurrencyLimit(c) ==
    IF c > 0 /\ c < DefaultCaptureLimit THEN c ELSE DefaultCaptureLimit

\* main.go 226-232
CaptureBatchSize(arg, c) ==
    LET b == IF arg > 0 THEN arg ELSE DefaultCaptureBatch
    IN  IF b < ConcurrencyLimit(c) THEN ConcurrencyLimit(c) ELSE b

RECURSIVE EvenPagesFrom(_, _)
EvenPagesFrom(i, n) ==
    IF i > n THEN <<>> ELSE <<i>> \o EvenPagesFrom(i + 2, n)

\* every page from 2 on, odd ones too
PagesToCaptureEveryPage(n) ==
    <<1>> \o [k \in 1..(IF n >= 2 THEN n - 1 ELSE 0) |-> k + 1]

\* main.go 239-244
PagesToCapture(n) == <<1>> \o EvenPagesFrom(2, n)

\* main.go 249
CaptureNumBatches ==
    (Len(pagesToCapture) + CaptureBatchSize(batchArg, conc) - 1)
        \div CaptureBatchSize(batchArg, conc)

\* main.go 262-268, as 1-based positions of pagesToCapture
CaptureBatchLast(b) ==
    Min((b + 1) * CaptureBatchSize(batchArg, conc), Len(pagesToCapture))

\* no odd page for any page
HasOddPageNever(p, n) == FALSE

\* an odd page for every even page, the last one included
HasOddPageAlways(p, n) == p > 1 /\ p % 2 = 0

\* main.go 313, 358 and 462
HasOddPage(p, n) == p > 1 /\ p % 2 = 0 /\ p < n

\* an entry ordered by the page of its file
CapturedOrderedByFile(p, file) ==
    [PageNumber |-> p, OverallOrder |-> file, Url |-> p, FullPath |-> file]

\* book.InteractivePageImage for page p backed by "interactive-{file}.png"
\* (main.go 303-308, 317-322, 361-366, 465-470; book.go 454-459, 713-718)
Captured(p, file) ==
    [PageNumber |-> p, OverallOrder |-> p, Url |-> p, FullPath |-> file]

\* what a successful call for page p appends (main.go 354-367, 458-471)
CapturedFor(p, n) ==
    <<Captured(p, p)>>
        \o (IF HasOddPage(p, n) THEN <<Captured(p + 1, p)>> ELSE <<>>)

IdleCapture == [pc |-> "idle", call |-> NoCall]

\* a pool in which a goroutine whose page failed never gives its slot back
CaptureFinishedOnSuccess(w) == w.pc \in {"idle", "ondisk", "captured", "retried"}

\* a goroutine's pc, once it has returned, keeps what became of its page:
\* "ondisk" (recorded by the caller), "captured", "failed", and "retried" for a
\* failed page that the serial retry pass captured
CaptureFinished(w) == w.pc \in {"idle", "ondisk", "captured", "failed", "retried"}

PositionOf(p) == CHOOSE k \in DOMAIN pagesToCapture : pagesToCapture[k] = p

\* a wait that takes every goroutine to have returned
NoneActive == {}

CaptureActive == {k \in DOMAIN capWorker : ~CaptureFinished(capWorker[k])}

\* sort.Ints (main.go 423), as an insertion sort
RECURSIVE InsertInt(_, _)
InsertInt(sorted, x) ==
    IF sorted = <<>> THEN <<x>>
    ELSE IF x < Head(sorted) THEN <<x>> \o sorted
    ELSE <<Head(sorted)>> \o InsertInt(Tail(sorted), x)

RECURSIVE SortIntsFrom(_, _)
SortIntsFrom(s, acc) ==
    IF s = <<>> THEN acc ELSE SortIntsFrom(Tail(s), InsertInt(acc, Head(s)))

SortInts(s) == SortIntsFrom(s, <<>>)

\* main.go 236-258
CaptureBegin ==
    /\ capPc = "start"
    /\ pagesToCapture' = PagesToCapture(PageCount)
    /\ capWorker' = [k \in 1..Len(PagesToCapture(PageCount)) |-> IdleCapture]
    /\ retryCalls' = [q \in Range(PagesToCapture(PageCount)) |-> 0]
    /\ capturedPages' = <<>>
    /\ failedPages' = <<>>
    /\ batchIndex' = 0
    /\ capNext' = 1
    /\ capPc' = "loop"
    /\ UNCHANGED <<argVars, pipeVars, dlVars, batchArg, shots, capMutex, retryPos, retryCall,
                   capStatus, capResult>>

\* main.go 298-300 when the file exists: the caller itself records the page
SkipExisting ==
    /\ capPc = "loop"
    /\ capNext <= CaptureBatchLast(batchIndex)
    /\ pagesToCapture[capNext] \in shots
    /\ capPc' = "skipLock"
    /\ UNCHANGED <<argVars, pipeVars, dlVars, batchArg, shots, pagesToCapture, batchIndex, capNext,
                   capWorker, capturedPages, failedPages, capMutex, retryPos,
                   retryCall, retryCalls, capStatus, capResult>>

\* mutex.Lock() at main.go 302 and 316
CallerLock ==
    /\ capPc \in {"skipLock", "oddLock"}
    /\ capMutex = 0
    /\ capMutex' = -1
    /\ capPc' = IF capPc = "skipLock" THEN "skipAppend" ELSE "oddAppend"
    /\ UNCHANGED <<argVars, pipeVars, dlVars, batchArg, shots, pagesToCapture, batchIndex, capNext,
                   capWorker, capturedPages, failedPages, retryPos, retryCall,
                   retryCalls, capStatus, capResult>>

\* main.go 303-309: the entry of the page itself
SkipAppend ==
    /\ capPc = "skipAppend"
    /\ capturedPages' = Append(capturedPages,
                               Captured(pagesToCapture[capNext], pagesToCapture[capNext]))
    /\ capMutex' = 0
    /\ IF HasOddPage(pagesToCapture[capNext], PageCount)
         THEN /\ capPc' = "oddLock"
              /\ UNCHANGED <<capNext, capWorker>>
         ELSE /\ capPc' = "loop"
              /\ capNext' = capNext + 1
              /\ capWorker' = [capWorker EXCEPT ![capNext].pc = "ondisk"]
    /\ UNCHANGED <<argVars, pipeVars, dlVars, batchArg, shots, pagesToCapture, batchIndex,
                   failedPages, retryPos, retryCall, retryCalls, capStatus,
                   capResult>>

\* main.go 313-324: the entry of the odd page, backed by the same file
OddAppend ==
    /\ capPc = "oddAppend"
    /\ capturedPages' = Append(capturedPages,
                               Captured(pagesToCapture[capNext] + 1, pagesToCapture[capNext]))
    /\ capMutex' = 0
    /\ capPc' = "loop"
    /\ capNext' = capNext + 1
    /\ capWorker' = [capWorker EXCEPT ![capNext].pc = "ondisk"]
    /\ UNCHANGED <<argVars, pipeVars, dlVars, batchArg, shots, pagesToCapture, batchIndex,
                   failedPages, retryPos, retryCall, retryCalls, capStatus,
                   capResult>>

\* main.go 331-346 when the file does not exist: eg.Go, which blocks while
\* concurrencyLimit goroutines are running (main.go 294); the goroutine sleeps
\* and calls CaptureInteractivePageQuiet
CaptureGo ==
    /\ capPc = "loop"
    /\ capNext <= CaptureBatchLast(batchIndex)
    /\ pagesToCapture[capNext] \notin shots
    /\ Cardinality(CaptureActive) < ConcurrencyLimit(conc)
    /\ capWorker' = [capWorker EXCEPT ![capNext] = [pc |-> "quiet", call |-> NewCall]]
    /\ capNext' = capNext + 1
    /\ UNCHANGED <<argVars, pipeVars, dlVars, batchArg, shots, capPc, pagesToCapture, batchIndex,
                   capturedPages, failedPages, capMutex, retryPos, retryCall,
                   retryCalls, capStatus, capResult>>

\* a step of the call made by the goroutine (main.go 346)
CaptureQuiet(k) ==
    /\ capWorker[k].pc = "quiet"
    /\ \E st \in QuietSteps(capWorker[k].call, pagesToCapture[k], shots) :
          /\ shots' = st.files
          /\ capWorker' = [capWorker EXCEPT ![k] =
                             IF st.q.pc \in {"ok", "err"}
                               THEN [pc |-> "lock", call |-> st.q]
                               ELSE [pc |-> "quiet", call |-> st.q]]
    /\ UNCHANGED <<argVars, pipeVars, dlVars, batchArg, capPc, pagesToCapture, batchIndex, capNext,
                   capturedPages, failedPages, capMutex, retryPos, retryCall,
                   retryCalls, capStatus, capResult>>

\* mutex.Lock() at main.go 349 and 353
CaptureLock(k) ==
    /\ capWorker[k].pc = "lock"
    /\ capMutex = 0
    /\ capMutex' = k
    /\ capWorker' = [capWorker EXCEPT ![k].pc = "append"]
    /\ UNCHANGED <<argVars, pipeVars, dlVars, batchArg, shots, capPc, pagesToCapture, batchIndex,
                   capNext, capturedPages, failedPages, retryPos, retryCall,
                   retryCalls, capStatus, capResult>>

\* main.go 347-369: the failure is recorded in failedPages, the success in
\* capturedPages; then mutex.Unlock().  The goroutine returns nil either way
\* (main.go 393); an error of batchBar.Add is only printed (main.go 373-375).
CaptureAppend(k) ==
    /\ capWorker[k].pc = "append"
    /\ capMutex = k
    /\ IF capWorker[k].call.pc = "err"
         THEN /\ failedPages' = Append(failedPages, pagesToCapture[k])
              /\ capturedPages' = capturedPages
              /\ capWorker' = [capWorker EXCEPT ![k] = [pc |-> "failed", call |-> NoCall]]
         ELSE /\ failedPages' = failedPages
              /\ capturedPages' = capturedPages \o CapturedFor(pagesToCapture[k], PageCount)
              /\ capWorker' = [capWorker EXCEPT ![k] = [pc |-> "captured", call |-> NoCall]]
    /\ capMutex' = 0
    /\ UNCHANGED <<argVars, pipeVars, dlVars, batchArg, shots, capPc, pagesToCapture, batchIndex,
                   capNext, retryPos, retryCall, retryCalls, capStatus, capResult>>

\* a loop that gives up the remaining batches once a page has failed
AfterCaptureBatchAborting(b, failed) ==
    IF failed # <<>> THEN "report"
    ELSE IF b + 1 < CaptureNumBatches THEN "loop" ELSE "report"

\* main.go 398-419 and the loop condition at main.go 261: where eg.Wait() leads
AfterCaptureBatch(b, failed) ==
    IF b + 1 < CaptureNumBatches THEN "loop" ELSE "report"

\* eg.Wait() (main.go 399), reached once every page of the batch has been taken
\* by the range loop; it returns when every goroutine has returned
CaptureWait ==
    /\ capPc = "loop"
    /\ capNext > CaptureBatchLast(batchIndex)
    /\ CaptureActive = {}
    /\ capPc' = AfterCaptureBatch(batchIndex, failedPages)
    /\ batchIndex' = IF AfterCaptureBatch(batchIndex, failedPages) = "loop"
                       THEN batchIndex + 1 ELSE batchIndex
    /\ UNCHANGED <<argVars, pipeVars, dlVars, batchArg, shots, pagesToCapture, capNext, capWorker,
                   capturedPages, failedPages, capMutex, retryPos, retryCall,
                   retryCalls, capStatus, capResult>>

\* a check that lets an empty list through
NoCapturesNever(captured) == FALSE

\* main.go 433
NoCaptures(captured) == Len(captured) = 0

\* a retry pass that never runs
RetryNeededNever(failed, requested) == FALSE

\* main.go 438
RetryNeeded(failed, requested) ==
    Len(failed) > 0 /\ Len(failed) < Len(requested)

\* main.go 421-441: both lists are sorted; with nothing captured the call
\* returns the error "failed to capture any pages"; otherwise the serial retry
\* pass starts, or the call returns
Report ==
    /\ capPc = "report"
    /\ failedPages' = SortInts(failedPages)
    /\ capturedPages' = SortByOverallOrder(capturedPages)
    /\ retryPos' = 1
    /\ IF NoCaptures(capturedPages)
         THEN capPc' = "done" /\ capStatus' = "nocaptures" /\ capResult' = <<>>
         ELSE IF RetryNeeded(failedPages, pagesToCapture)
           THEN capPc' = "retry" /\ capStatus' = capStatus /\ capResult' = capResult
           ELSE /\ capPc' = "done"
                /\ capStatus' = "ok"
                /\ capResult' = SortByOverallOrder(capturedPages)
    /\ UNCHANGED <<argVars, pipeVars, dlVars, batchArg, shots, pagesToCapture, batchIndex, capNext,
                   capWorker, capMutex, retryCall, retryCalls>>

\* main.go 443-451: the next failed page is taken and, after the pause,
\* CaptureInteractivePageQuiet is called for it
RetryCall ==
    /\ capPc = "retry"
    /\ retryCall.pc = "none"
    /\ retryPos <= Len(failedPages)
    /\ retryCall' = NewCall
    /\ retryCalls' = [retryCalls EXCEPT ![failedPages[retryPos]] = @ + 1]
    /\ UNCHANGED <<argVars, pipeVars, dlVars, batchArg, shots, capPc, pagesToCapture, batchIndex,
                   capNext, capWorker, capturedPages, failedPages, capMutex,
                   retryPos, capStatus, capResult>>

\* a step of the call of main.go 451
RetryQuiet ==
    /\ capPc = "retry"
    /\ \E st \in QuietSteps(retryCall, failedPages[retryPos], shots) :
          /\ shots' = st.files
          /\ retryCall' = st.q
    /\ UNCHANGED <<argVars, pipeVars, dlVars, batchArg, capPc, pagesToCapture, batchIndex, capNext,
                   capWorker, capturedPages, failedPages, capMutex, retryPos,
                   retryCalls, capStatus, capResult>>

\* main.go 454-455: the page still fails; on to the next one
RetryFailed ==
    /\ capPc = "retry"
    /\ retryCall.pc = "err"
    /\ retryCall' = NoCall
    /\ retryPos' = retryPos + 1
    /\ UNCHANGED <<argVars, pipeVars, dlVars, batchArg, shots, capPc, pagesToCapture, batchIndex,
                   capNext, capWorker, capturedPages, failedPages, capMutex,
                   retryCalls, capStatus, capResult>>

\* mutex.Lock() at main.go 457
RetryLock ==
    /\ capPc = "retry"
    /\ retryCall.pc = "ok"
    /\ capMutex = 0
    /\ capMutex' = -1
    /\ capPc' = "retryAppend"
    /\ UNCHANGED <<argVars, pipeVars, dlVars, batchArg, shots, pagesToCapture, batchIndex, capNext,
                   capWorker, capturedPages, failedPages, retryPos, retryCall,
                   retryCalls, capStatus, capResult>>

\* main.go 458-473
RetryAppend ==
    /\ capPc = "retryAppend"
    /\ capturedPages' = capturedPages \o CapturedFor(failedPages[retryPos], PageCount)
    /\ capMutex' = 0
    /\ capPc' = "retry"
    /\ retryCall' = NoCall
    /\ retryPos' = retryPos + 1
    /\ capWorker' = [capWorker EXCEPT ![PositionOf(failedPages[retryPos])].pc = "retried"]
    /\ UNCHANGED <<argVars, pipeVars, dlVars, batchArg, shots, pagesToCapture, batchIndex, capNext,
                   failedPages, retryCalls, capStatus, capResult>>

\* main.go 485-495: the list is sorted again and returned
RetryReturn ==
    /\ capPc = "retry"
    /\ retryCall.pc = "none"
    /\ retryPos > Len(failedPages)
    /\ capturedPages' = SortByOverallOrder(capturedPages)
    /\ capResult' = SortByOverallOrder(capturedPages)
    /\ capStatus' = "ok"
    /\ capPc' = "done"
    /\ UNCHANGED <<argVars, pipeVars, dlVars, batchArg, shots, pagesToCapture, batchIndex, capNext,
                   capWorker, failedPages, capMutex, retryPos, retryCall,
                   retryCalls>>

----------------------------------------------------------------------------
(* generateInteractivePDF and generatePDF, main.go 627-694 *)

\* the path strings the encoder is given: "{p}-{i}.jpg" of the image folder and
\* "interactive-{p}.png" of its interactive subfolder
JpgPath(f) == <<"jpg", f[1], f[2]>>

PngPath(p) == <<"png", p, 0>>

\* pageMap[key] = path (main.go 641, 646)
Put(m, key, path) ==
    [q \in DOMAIN m \cup {key} |-> IF q = key THEN path ELSE m[q]]

\* main.go 640-642: the loop over downloadedImages
RECURSIVE PutDownloaded(_, _)
PutDownloaded(m, list) ==
    IF list = <<>> THEN m
    ELSE PutDownloaded(Put(m, Head(list).PageNumber, JpgPath(Head(list).FullPath)),
                       Tail(list))

\* a loop that leaves a page alone when it has a path already
RECURSIVE PutInteractiveKeepDownloaded(_, _)
PutInteractiveKeepDownloaded(m, list) ==
    IF list = <<>> THEN m
    ELSE PutInteractiveKeepDownloaded(
             IF Head(list).PageNumber \in DOMAIN m THEN m
             ELSE Put(m, Head(list).PageNumber, PngPath(Head(list).FullPath)),
             Tail(list))

\* main.go 645-647: the loop over interactiveImages
RECURSIVE PutInteractive(_, _)
PutInteractive(m, list) ==
    IF list = <<>> THEN m
    ELSE PutInteractive(Put(m, Head(list).PageNumber, PngPath(Head(list).FullPath)),
                        Tail(list))

\* main.go 637-647
PageMap(downloaded, captured) ==
    PutInteractive(PutDownloaded(<<>>, downloaded), captured)

\* main.go 650-653: the keys of the map, in the order the range yields them
RECURSIVE KeysOf(_)
KeysOf(S) ==
    IF S = {} THEN <<>>
    ELSE LET x == CHOOSE y \in S : TRUE IN <<x>> \o KeysOf(S \ {x})

\* the keys in descending order
PageNumsDescending(m) ==
    LET up == SortInts(KeysOf(DOMAIN m))
    IN  [k \in 1..Len(up) |-> up[Len(up) + 1 - k]]

\* main.go 650-654
PageNums(m) == SortInts(KeysOf(DOMAIN m))

\* main.go 657-660: the paths generateInteractivePDF hands to the encoder
InteractivePaths(downloaded, captured) ==
    LET m == PageMap(downloaded, captured)
    IN  [k \in 1..Len(PageNums(m)) |-> m[PageNums(m)[k]]]

\* main.go 682-685: the paths generatePDF hands to the encoder
ImageFiles(list) == [k \in 1..Len(list) |-> JpgPath(list[k].FullPath)]

\* a check that never finds the file
AlreadyExistsNever(file, f) == FALSE

\* main.go 629 and 674: os.Stat(pdfPath) succeeds and force is not set
AlreadyExists(file, f) == file # "absent" /\ ~f

NoEncode == [fn |-> "none", status |-> "none"]

\* the body shared by the two generators: the check of main.go 629 / 674, then
\* pdfcpu's ImportImagesFile on paths (main.go 663 / 688), which writes the
\* file or fails, perhaps after it has begun to write; downloadPdf2 returns
\* the generator's error or nil (main.go 590-593, 600-603, 611-614, 623)
Generate(fn, paths) ==
    /\ IF AlreadyExists(pdf, force)
         THEN /\ encodeCall' = [fn |-> fn, status |-> "exists"]
              /\ pipeStatus' = "err"
              /\ UNCHANGED <<pdf, encoderInput, encoderCalls>>
         ELSE /\ encoderInput' = paths
              /\ encoderCalls' = encoderCalls + 1
              /\ \E encoded \in BOOLEAN :
                    IF encoded
                      THEN /\ pdf' = "new"
                           /\ encodeCall' = [fn |-> fn, status |-> "ok"]
                           /\ pipeStatus' = "ok"
                      ELSE /\ pdf' \in {pdf, "broken"}
                           /\ encodeCall' = [fn |-> fn, status |-> "err"]
                           /\ pipeStatus' = "err"
    /\ phase' = "done"
    /\ UNCHANGED <<argVars, dlVars, capVars, interactive, force, phaseLog>>

\* generatePDF (main.go 672-694), called at main.go 600 and 611
GeneratePDF ==
    /\ phase = "encode"
    /\ Generate("generatePDF", ImageFiles(dlResult))

\* generateInteractivePDF (main.go 627-669), called at main.go 590
GenerateInteractivePDF ==
    /\ phase = "encodeInteractive"
    /\ Generate("generateInteractivePDF", InteractivePaths(dlResult, capResult))

----------------------------------------------------------------------------
(* downloadPdf2, main.go 519-624 *)

\* book.Get (main.go 529-532): the manifest is fetched and parsed, or not
Get ==
    /\ phase = "get"
    /\ phaseLog' = Append(phaseLog, "manifest")
    /\ \E fetched \in BOOLEAN :
          IF fetched
            THEN phase' = "stat" /\ pipeStatus' = pipeStatus
            ELSE phase' = "done" /\ pipeStatus' = "err"
    /\ UNCHANGED <<argVars, dlVars, capVars, interactive, force, pdf, encodeCall,
                   encoderInput, encoderCalls>>

\* a check that never skips
PdfSkippedNever(file, f) == FALSE

\* main.go 550: the PDF is there and is not to be overwritten
PdfSkipped(file, f) == file # "absent" /\ ~f

\* main.go 547-567: with the PDF in place the call returns nil at once;
\* otherwise it goes on to FindAllImages and downloadImages
StatPdf ==
    /\ phase = "stat"
    /\ IF PdfSkipped(pdf, force)
         THEN /\ phase' = "done"
              /\ pipeStatus' = "skipped"
              /\ UNCHANGED <<dlPc, phaseLog>>
         ELSE /\ phase' = "images"
              /\ dlPc' = "find"
              /\ phaseLog' = Append(phaseLog, "download")
              /\ pipeStatus' = pipeStatus
    /\ UNCHANGED <<book, images, conc, disk, batchIdx, nextIdx, worker,
                   downloadedImages, egErr, mutex, netRequests, dlStatus, dlResult,
                   run, firstRun, resumed,
                   capVars, argVars, interactive, force, pdf, encodeCall, encoderInput,
                   encoderCalls>>

\* a caller that goes on whatever downloadImages returned
AfterDownloadIgnoringError(status, inter) ==
    IF inter THEN "capture" ELSE "encode"

\* main.go 567-576 and 608-611: where the return of downloadImages leads
AfterDownload(status, inter) ==
    IF status # "ok" THEN "done"
    ELSE IF inter THEN "capture" ELSE "encode"

DownloadReturned ==
    /\ phase = "images"
    /\ dlPc = "done"
    /\ LET to == AfterDownload(dlStatus, interactive)
       IN  /\ phase' = to
           /\ pipeStatus' = IF to # "done" THEN pipeStatus
                            ELSE IF dlStatus = "panic" THEN "panic" ELSE "err"
           /\ capPc' = IF to = "capture" THEN "start" ELSE capPc
           /\ phaseLog' = IF to = "done" THEN phaseLog ELSE Append(phaseLog, to)
    /\ UNCHANGED <<argVars, dlVars, batchArg, shots, pagesToCapture, batchIndex, capNext,
                   capWorker, capturedPages, failedPages, capMutex, retryPos,
                   retryCall, retryCalls, capStatus, capResult,
                   interactive, force, pdf, encodeCall, encoderInput, encoderCalls>>

\* a caller that assembles whatever the capture phase returned
AfterCaptureIgnoringError(status, captured) ==
    IF Len(captured) > 0 THEN "encodeInteractive" ELSE "encode"

\* a caller that gives up after the capture phase
AfterCaptureGivingUp(status, captured) == "done"

\* main.go 578-607: where the return of captureInteractivePages leads
AfterCapture(status, captured) ==
    IF status # "ok" THEN "done"
    ELSE IF Len(captured) > 0 THEN "encodeInteractive" ELSE "encode"

CaptureReturned ==
    /\ phase = "capture"
    /\ capPc = "done"
    /\ LET to == AfterCapture(capStatus, capResult)
       IN  /\ phase' = to
           /\ pipeStatus' = IF to = "done" THEN "err" ELSE pipeStatus
           /\ phaseLog' = IF to = "done" THEN phaseLog ELSE Append(phaseLog, "encode")
    /\ UNCHANGED <<argVars, dlVars, capVars, interactive, force, pdf, encodeCall,
                   encoderInput, encoderCalls>>

----------------------------------------------------------------------------
(* ParseId and the image lists of Get, book.go 721-739 and 771-825 *)

\* a text is a sequence of characters: "a" stands for a letter, a digit or
\* "_", "-" for any other character that is not a slash, and "https:" for a
\* scheme with its colon, which a text can only begin with
Chars == {"a", "/", "-"}

WordChars == {"a"}

Texts(n) ==
    UNION { [1..m -> Chars] : m \in 0..n }
      \cup { <<"https:">> \o t : t \in UNION { [1..m -> Chars] : m \in 0..(n - 1) } }

\* how many characters of \w follow position i of s
RECURSIVE WordRun(_, _)
WordRun(s, i) ==
    IF i < Len(s) /\ s[i + 1] \in WordChars THEN 1 + WordRun(s, i + 1) ELSE 0

\* a pattern that has to match the whole text
IdMatchWhole(s) ==
    LET n1 == WordRun(s, 0)
        n2 == WordRun(s, n1 + 1)
    IN  IF n1 > 0 /\ n1 < Len(s) /\ s[n1 + 1] = "/" /\ n2 > 0 /\ n1 + 1 + n2 = Len(s)
          THEN <<SubSeq(s, 1, n1 + 1 + n2)>>
          ELSE <<>>

\* idRegex.FindStringSubmatch (book.go 23, 723, 732): ^(\w+\/\w+)\/? matches at
\* the start of the text only, each \w+ takes the whole run of word
\* characters, and what follows the match is not looked at; the result is
\* the first group, or nothing
IdMatch(s) ==
    LET n1 == WordRun(s, 0)
        n2 == WordRun(s, n1 + 1)
    IN  IF n1 > 0 /\ n1 < Len(s) /\ s[n1 + 1] = "/" /\ n2 > 0
          THEN <<SubSeq(s, 1, n1 + 1 + n2)>>
          ELSE <<>>

HasPrefix(s, pre) == Len(s) >= Len(pre) /\ SubSeq(s, 1, Len(pre)) = pre

\* where the first slash of s is, or 0
RECURSIVE IndexSlash(_, _)
IndexSlash(s, i) ==
    IF i > Len(s) THEN 0
    ELSE IF s[i] = "/" THEN i ELSE IndexSlash(s, i + 1)

\* url.Parse (book.go 728) on a text of these characters, which it never
\* rejects: the scheme is split off, what follows "//" up to the next slash
\* is the host, and the rest is the path; a text with a scheme and no
\* leading slash has no path, and one without a scheme that begins with
\* "///" has no host
UrlParse(s) ==
    LET scheme == s # <<>> /\ s[1] = "https:"
        rest == IF scheme THEN Tail(s) ELSE s
    IN  IF (scheme \/ ~HasPrefix(rest, <<"/", "/", "/">>)) /\ HasPrefix(rest, <<"/", "/">>)
          THEN LET authority == SubSeq(rest, 3, Len(rest))
                   i == IndexSlash(authority, 1)
               IN  IF i > 0
                     THEN [Host |-> SubSeq(authority, 1, i - 1),
                           Path |-> SubSeq(authority, i, Len(authority))]
                     ELSE [Host |-> authority, Path |-> <<>>]
          ELSE IF scheme /\ ~HasPrefix(rest, <<"/">>)
                 THEN [Host |-> <<>>, Path |-> <<>>]
                 ELSE [Host |-> <<>>, Path |-> rest]

RECURSIVE TrimLeft(_)
TrimLeft(s) == IF s # <<>> /\ Head(s) = "/" THEN TrimLeft(Tail(s)) ELSE s

RECURSIVE TrimRight(_)
TrimRight(s) ==
    IF s # <<>> /\ s[Len(s)] = "/" THEN TrimRight(SubSeq(s, 1, Len(s) - 1)) ELSE s

\* strings.Trim(u.Path, "/") (book.go 730)
Trim(s) == TrimRight(TrimLeft(s))

NoParse == [err |-> FALSE, id |-> <<>>, called |-> FALSE]

ParseError == [err |-> TRUE, id |-> <<>>, called |-> TRUE]

Parsed(id) == [err |-> FALSE, id |-> id, called |-> TRUE]

\* ParseId (book.go 721-739)
ParseId(s) ==
    IF IdMatch(s) # <<>> THEN Parsed(IdMatch(s)[1])
    ELSE IF UrlParse(s).Host # <<>> /\ IdMatch(Trim(UrlParse(s).Path)) # <<>>
           THEN Parsed(IdMatch(Trim(UrlParse(s).Path))[1])
           ELSE ParseError

\* book.go 772: Get begins with ParseId
ParseIdCall ==
    /\ ~parsedId.called
    /\ parsedId' = ParseId(idOrUrl)
    /\ UNCHANGED <<dlVars, capVars, pipeVars, sideVars, idOrUrl, imagesField, imageUrls, ctxDone>>

\* the name of an image in the manifest, in parts: "./", "files/" and "x"
\* for any other text
Parts == {"./", "files/", "x"}

Names(n) == UNION { [1..m -> Parts] : m \in 0..n }

\* an element of a JSON list: a string with its text, or a value of another type
Elements(n) ==
    { [str |-> TRUE, name |-> t] : t \in Names(n) } \cup { [str |-> FALSE, name |-> <<>>] }

\* pageInfo.Images (book.go 782): a string, a list, or a value of another type
Fields(k, n) ==
    { [kind |-> "string", elems |-> <<[str |-> TRUE, name |-> t]>>] : t \in Names(n) }
      \cup { [kind |-> "list", elems |-> l] :
                l \in UNION { [1..m -> Elements(n)] : m \in 0..k } }
      \cup { [kind |-> "other", elems |-> <<>>] }

\* strings.TrimPrefix(imgStr, "./") (book.go 787, 799)
TrimPrefix(name, pre) ==
    IF HasPrefix(name, pre) THEN SubSeq(name, Len(pre) + 1, Len(name)) ELSE name

\* book.Url (book.go 817)
Root(id) == <<"https://online.fliphtml5.com/">> \o id \o <<"/">>

\* a URL that always gets the sub-path
ImageUrlAlwaysLarge(id, name) ==
    Root(id) \o <<"files/", "large/">> \o TrimPrefix(name, <<"./">>)

\* book.go 786-793 and 798-804: the URL of one image name
ImageUrl(id, name) ==
    LET trimmed == TrimPrefix(name, <<"./">>)
    IN  IF HasPrefix(trimmed, <<"files/">>)
          THEN Root(id) \o trimmed
          ELSE Root(id) \o <<"files/", "large/">> \o trimmed

\* book.go 784-795: the loop over a list; an element that is no string is
\* passed over
RECURSIVE UrlsOfList(_, _)
UrlsOfList(id, elems) ==
    IF elems = <<>> THEN <<>>
    ELSE (IF Head(elems).str THEN <<ImageUrl(id, Head(elems).name)>> ELSE <<>>)
           \o UrlsOfList(id, Tail(elems))

\* book.go 779-805: the switch on the type of pageInfo.Images
ImageUrls(id, field) ==
    IF field.kind = "list" THEN UrlsOfList(id, field.elems)
    ELSE IF field.kind = "string" THEN <<ImageUrl(id, field.elems[1].name)>>
    ELSE <<>>

NoUrls == [state |-> "none", urls |-> <<>>]

\* book.go 772-812: after ParseId, Get downloads the manifest, which may
\* fail, and builds Page.ImageUrls of each page
GetPages ==
    /\ parsedId.called
    /\ ~parsedId.err
    /\ imageUrls.state = "none"
    /\ \E fetched \in BOOLEAN :
          imageUrls' = IF fetched
                         THEN [state |-> "built", urls |-> ImageUrls(parsedId.id, imagesField)]
                         ELSE [state |-> "err", urls |-> <<>>]
    /\ UNCHANGED <<dlVars, capVars, pipeVars, sideVars, idOrUrl, parsedId, imagesField, ctxDone>>

----------------------------------------------------------------------------
(* Specifications *)

CaptureStart ==
    /\ pagesToCapture = <<>>
    /\ batchIndex = 0
    /\ capNext = 1
    /\ capWorker = <<>>
    /\ capturedPages = <<>>
    /\ failedPages = <<>>
    /\ capMutex = 0
    /\ retryPos = 1
    /\ retryCall = NoCall
    /\ retryCalls = <<>>
    /\ capStatus = "none"
    /\ capResult = <<>>

\* the capture phase is not running
CaptureIdle ==
    /\ batchArg = 0
    /\ shots = {}
    /\ capPc = "idle"
    /\ CaptureStart

\* the locals of downloadImages before it runs
DownloadLocals ==
    /\ images = <<>>
    /\ batchIdx = 0
    /\ nextIdx = 1
    /\ worker = <<>>
    /\ downloadedImages = <<>>
    /\ egErr = FALSE
    /\ mutex = 0
    /\ netRequests = 0
    /\ dlStatus = "none"
    /\ dlResult = <<>>
    /\ run = 1
    /\ firstRun = [status |-> "none", result |-> <<>>]
    /\ resumed = FALSE

DownloadStart ==
    /\ dlPc = "find"
    /\ DownloadLocals

\* downloadPdf2 is not followed
PipelineIdle ==
    /\ interactive = FALSE
    /\ force = FALSE
    /\ pdf = "absent"
    /\ phase = "idle"
    /\ phaseLog = <<>>
    /\ encodeCall = NoEncode
    /\ encoderInput = <<>>
    /\ encoderCalls = 0
    /\ pipeStatus = "none"

(* Decimal numbers *)

\* strconv's decimal digits, as fmt's %d writes a positive int
Digit(d) == <<"0", "1", "2", "3", "4", "5", "6", "7", "8", "9">>[d + 1]

RECURSIVE Itoa(_)
Itoa(n) == IF n < 10 THEN <<Digit(n)>> ELSE Itoa(n \div 10) \o <<Digit(n % 10)>>

----------------------------------------------------------------------------
(* uiModel.Update, termui.go 108-264 *)

\* msg.String() of the keys that are pressed: "a" stands for a letter without
\* a case of its own in Update, "1" for a digit, "tab" for a key that is not
\* of type tea.KeyRunes; "k", "y" and "n" stand for "j", "Y" and "N" as well,
\* which share their cases but for the direction of "j"
Keys ==
    {"ctrl+c", "q", "up", "k", "down", "enter", "esc", "y", "n",
     "backspace", "a", "1", "tab"}

\* the keys whose Type is tea.KeyRunes
Runes == {"q", "k", "y", "n", "a", "1"}

IsDigit(c) == \E d \in 0..9 : Digit(d) = c

DigitValue(c) == CHOOSE d \in 0..9 : Digit(d) = c

RECURSIVE Number(_)
Number(text) ==
    IF text = <<>> THEN 0
    ELSE 10 * Number(SubSeq(text, 1, Len(text) - 1)) + DigitValue(text[Len(text)])

\* strconv.Atoi on a text without a sign (termui.go 145, 150)
Atoi(text) ==
    IF text # <<>> /\ \A i \in DOMAIN text : IsDigit(text[i])
      THEN [ok |-> TRUE, val |-> Number(text)]
      ELSE [ok |-> FALSE, val |-> 0]

\* initialModel (termui.go 55-74) with defaultSettings (termui.go 29-34) on a
\* machine of two processors; the folder "output" is written "o"
InitialModel ==
    [cursor |-> 0, selected |-> FALSE, downloadType |-> "", url |-> <<>>,
     interactive |-> FALSE, settingsMode |-> FALSE, settingCursor |-> 0,
     editingValue |-> FALSE, editValue |-> <<>>, confirmation |-> "",
     Concurrency |-> 1, BatchSize |-> 8, OutputFolder |-> <<"o">>,
     SkipExisting |-> TRUE]

\* len(m.choices) - 1 and len(m.settingOptions) - 1 (termui.go 57-72)
LastChoice == 4

LastSetting == 4

\* what a switch hands on: the model, whether tea.Quit is returned, and
\* whether Update has returned
Returned(m, quit) == [m |-> m, quit |-> quit, returned |-> TRUE]

FallsThrough(m) == [m |-> m, quit |-> FALSE, returned |-> FALSE]

\* termui.go 141-163: Enter while a setting is edited
SaveSetting(m) ==
    LET n == Atoi(m.editValue)
        saved ==
            IF m.settingCursor = 0
              THEN IF n.ok /\ n.val > 0 THEN [m EXCEPT !.Concurrency = n.val] ELSE m
            ELSE IF m.settingCursor = 1
              THEN IF n.ok /\ n.val > 0 THEN [m EXCEPT !.BatchSize = n.val] ELSE m
            ELSE IF m.settingCursor = 2
              THEN IF m.editValue # <<>> THEN [m EXCEPT !.OutputFolder = m.editValue]
                   ELSE m
            ELSE IF m.settingCursor = 3
              THEN [m EXCEPT !.SkipExisting = ~m.SkipExisting]
            ELSE m
    IN  [saved EXCEPT !.editingValue = FALSE]

\* termui.go 167-182: Enter on a setting
EditSetting(m) ==
    IF m.settingCursor = 0
      THEN [m EXCEPT !.editValue = Itoa(m.Concurrency), !.editingValue = TRUE]
    ELSE IF m.settingCursor = 1
      THEN [m EXCEPT !.editValue = Itoa(m.BatchSize), !.editingValue = TRUE]
    ELSE IF m.settingCursor = 2
      THEN [m EXCEPT !.editValue = m.OutputFolder, !.editingValue = TRUE]
    ELSE IF m.settingCursor = 3
      THEN [m EXCEPT !.SkipExisting = ~m.SkipExisting]
    ELSE m

\* termui.go 138-210: case "enter"
Enter(m) ==
    IF m.settingsMode
      THEN IF m.editingValue THEN FallsThrough(SaveSetting(m))
           ELSE IF m.settingCursor = LastSetting
             THEN FallsThrough([m EXCEPT !.settingsMode = FALSE])
           ELSE FallsThrough(EditSetting(m))
    ELSE IF ~m.selected
      THEN IF m.cursor = 0
             THEN FallsThrough([m EXCEPT !.downloadType = "single",
                                         !.interactive = FALSE, !.selected = TRUE])
           ELSE IF m.cursor = 1
             THEN FallsThrough([m EXCEPT !.downloadType = "single",
                                         !.interactive = TRUE, !.selected = TRUE])
           ELSE IF m.cursor = 2
             THEN FallsThrough([m EXCEPT !.downloadType = "batch", !.selected = TRUE,
                                         !.confirmation = ""])
           ELSE IF m.cursor = 3
             THEN Returned([m EXCEPT !.settingsMode = TRUE, !.settingCursor = 0], FALSE)
           ELSE IF m.cursor = 4 THEN Returned(m, TRUE)
           ELSE FallsThrough(m)
    ELSE IF m.downloadType = "single"
      THEN IF m.url # <<>> THEN Returned(m, TRUE) ELSE FallsThrough(m)
    ELSE FallsThrough(m)

\* the first switch on msg.String(), termui.go 112-219
FirstSwitch(m, key) ==
    IF key \in {"ctrl+c", "q"}
      THEN IF ~m.selected /\ ~m.settingsMode THEN Returned(m, TRUE)
           ELSE IF m.settingsMode
             THEN Returned([m EXCEPT !.settingsMode = FALSE, !.editingValue = FALSE],
                           FALSE)
           ELSE Returned([m EXCEPT !.selected = FALSE, !.confirmation = ""], FALSE)
    ELSE IF key \in {"up", "k"}
      THEN IF ~m.selected /\ ~m.settingsMode /\ m.cursor > 0
             THEN FallsThrough([m EXCEPT !.cursor = @ - 1])
           ELSE IF m.settingsMode /\ ~m.editingValue /\ m.settingCursor > 0
             THEN FallsThrough([m EXCEPT !.settingCursor = @ - 1])
           ELSE FallsThrough(m)
    ELSE IF key \in {"down", "j"}
      THEN IF ~m.selected /\ ~m.settingsMode /\ m.cursor < LastChoice
             THEN FallsThrough([m EXCEPT !.cursor = @ + 1])
           ELSE IF m.settingsMode /\ ~m.editingValue /\ m.settingCursor < LastSetting
             THEN FallsThrough([m EXCEPT !.settingCursor = @ + 1])
           ELSE FallsThrough(m)
    ELSE IF key = "enter" THEN Enter(m)
    ELSE IF key = "esc"
      THEN IF m.settingsMode /\ m.editingValue
             THEN FallsThrough([m EXCEPT !.editingValue = FALSE])
           ELSE IF m.settingsMode THEN FallsThrough([m EXCEPT !.settingsMode = FALSE])
           ELSE IF m.selected THEN FallsThrough([m EXCEPT !.selected = FALSE])
           ELSE FallsThrough(m)
    ELSE FallsThrough(m)

\* termui.go 240-246 and 254-261: the typed character goes to the URL or to
\* the value that is edited
TypeRune(m, key) ==
    IF key \notin Runes THEN m
    ELSE IF m.selected /\ m.downloadType = "single"
      THEN [m EXCEPT !.url = Append(@, key)]
    ELSE IF m.settingsMode /\ m.editingValue
      THEN [m EXCEPT !.editValue = Append(@, key)]
    ELSE m

\* m.url[:len(m.url)-1] and m.editValue[:len(m.editValue)-1] (termui.go 248-253)
Backspace(m) ==
    IF m.selected /\ m.downloadType = "single" /\ Len(m.url) > 0
      THEN [m EXCEPT !.url = SubSeq(@, 1, Len(@) - 1)]
    ELSE IF m.settingsMode /\ m.editingValue /\ Len(m.editValue) > 0
      THEN [m EXCEPT !.editValue = SubSeq(@, 1, Len(@) - 1)]
    ELSE m

\* the second switch on keyMsg.String(), termui.go 222-262
SecondSwitch(m, key) ==
    IF key \in {"enter", "up", "down", "ctrl+c", "esc"} THEN Returned(m, FALSE)
    ELSE IF key = "y"
      THEN IF m.selected /\ m.downloadType = "batch"
             THEN Returned([m EXCEPT !.confirmation = "y"], TRUE)
             ELSE Returned(m, FALSE)
    ELSE IF key = "n"
      THEN IF m.selected /\ m.downloadType = "batch"
             THEN Returned([m EXCEPT !.confirmation = "", !.selected = FALSE], FALSE)
             ELSE Returned(TypeRune(m, key), FALSE)
    ELSE IF key = "backspace" THEN Returned(Backspace(m), FALSE)
    ELSE Returned(TypeRune(m, key), FALSE)

\* uiModel.Update on a tea.KeyMsg
Update(m, key) ==
    IF FirstSwitch(m, key).returned THEN FirstSwitch(m, key)
    ELSE SecondSwitch(FirstSwitch(m, key).m, key)

\* a key is pressed while the program runs; texts are followed up to
\* MaxUiText characters
KeyPress ==
    /\ ~uiQuit
    /\ \E key \in Keys :
          /\ Len(Update(ui, key).m.url) <= MaxUiText
          /\ Len(Update(ui, key).m.editValue) <= MaxUiText
          /\ ui' = Update(ui, key).m
          /\ uiQuit' = Update(ui, key).quit
    /\ UNCHANGED <<mainVars, fileVars, writeVars, batchVars>>

UiIdle ==
    /\ ui = <<>>
    /\ uiQuit = FALSE

----------------------------------------------------------------------------
(* downloadBatch, termui.go 437-626 *)

\* the URLs that book files name: a book, with or without the "-i" that asks
\* for interactive mode
BookUrls == { <<b>> : b \in BatchBooks } \cup { <<b, "-i">> : b \in BatchBooks }

\* a book file that cannot be opened or has no line (termui.go 507-521)
Unreadable == <<"unreadable">>

\* what a book file holds: nothing that can be read, an empty first line
\* (termui.go 523-531), or a URL
FileContents == {Unreadable, <<>>} \cup BookUrls

\* strings.HasSuffix(url, "-i") (termui.go 543)
HasInteractiveSuffix(url) == Len(url) > 0 /\ url[Len(url)] = "-i"

\* strings.TrimSuffix(url, "-i") (termui.go 545)
TrimInteractiveSuffix(url) ==
    IF HasInteractiveSuffix(url) THEN SubSeq(url, 1, Len(url) - 1) ELSE url

\* extractBookID (termui.go 549, 646-662): the folder and PDF name of a book
BookId(url) == url[1]

\* termui.go 534: the lookup in downloadedURLs by the text read from the file
AlreadyDownloaded(text, downloaded) == text \in downloaded

\* one round of the loop over txtFiles (termui.go 495-617): the file is read,
\* a URL met before is skipped, the "-i" is cut off, the folder is made, a book
\* whose PDF is there is skipped when SkipExisting is set, and downloadPdf2 is
\* called; its success is recorded in downloadedURLs under the URL it was given
ProcessFile ==
    /\ filePos <= Len(txtFiles)
    /\ filePos' = filePos + 1
    /\ LET text == txtFiles[filePos]
           url == TrimInteractiveSuffix(text)
       IN  IF text = Unreadable \/ text = <<>>
             THEN /\ outcomes' = Append(outcomes, "failed")
                  /\ UNCHANGED <<downloadedURLs, bookFolders, bookPdfs>>
           ELSE IF AlreadyDownloaded(text, downloadedURLs)
             THEN /\ outcomes' = Append(outcomes, "skipped-url")
                  /\ UNCHANGED <<downloadedURLs, bookFolders, bookPdfs>>
           \* os.MkdirAll is called for a folder that is not there (termui.go 557)
           ELSE \E made \in IF BookId(url) \in bookFolders THEN {TRUE} ELSE BOOLEAN :
                  IF ~made
                    THEN /\ outcomes' = Append(outcomes, "failed")
                         /\ UNCHANGED <<downloadedURLs, bookFolders, bookPdfs>>
                  ELSE /\ bookFolders' = bookFolders \cup {BookId(url)}
                       /\ IF BookId(url) \in bookPdfs /\ skipExisting
                            THEN /\ outcomes' = Append(outcomes, "skipped-pdf")
                                 /\ UNCHANGED <<downloadedURLs, bookPdfs>>
                          ELSE \E ok \in BOOLEAN :
                                 IF ok
                                   THEN /\ outcomes' = Append(outcomes, "downloaded")
                                        /\ downloadedURLs' = downloadedURLs \cup {url}
                                        \* the PDF is named by the book's title,
                                        \* which may or may not be the book ID
                                        /\ bookPdfs' \in {bookPdfs,
                                                          bookPdfs \cup {BookId(url)}}
                                   ELSE /\ outcomes' = Append(outcomes, "download-failed")
                                        /\ UNCHANGED <<downloadedURLs, bookPdfs>>
    /\ UNCHANGED <<mainVars, fileVars, writeVars, uiVars, txtFiles, skipExisting>>

BatchIdle ==
    /\ txtFiles = <<>>
    /\ skipExisting = TRUE
    /\ bookFolders = {}
    /\ bookPdfs = {}
    /\ filePos = 1
    /\ downloadedURLs = {}
    /\ outcomes = <<>>

----------------------------------------------------------------------------
(* The file of PageImage.Download, book.go 847-998 *)

\* one call: pc is "stat" (main.go 118, book.go 851), "request" (book.go
\* 886-948), "create" (book.go 952), "copy" (book.go 959-960), "close" (book.go
\* 963-984), "ok" or "err" (returned); attempt and lastErr are the locals of
\* book.go 879 and 876, copyErr the err of book.go 960
NoDownload == [pc |-> "none", attempt |-> 0, lastErr |-> "none", copyErr |-> FALSE]

NewDownload == [NoDownload EXCEPT !.pc = "stat"]

\* continue (book.go 889, 901, 947, 955, 968, 974, 980) with lastErr set: the
\* next pass, or the return of book.go 997 after the last one
NextPass(c, err) ==
    IF AfterFailedAttempt(c.attempt) = "failed"
      THEN [pc |-> "err", attempt |-> c.attempt, lastErr |-> err, copyErr |-> FALSE]
      ELSE [pc |-> "request", attempt |-> c.attempt + 1, lastErr |-> err,
            copyErr |-> FALSE]

\* the errgroup cancels batchCtx when a goroutine returns an error (main.go
\* 109, 139-142)
CancelledBy(c) == batchCtxDone \/ c.pc = "err"

\* a pass that leaves the file where it is
AfterFailedWriteKept(file) == file

\* os.Remove(fullPath) (book.go 967, 973, 979), of a file the call has just
\* created and closed
AfterFailedWrite(file) == "absent"

\* main.go 117-118 and book.go 850-860: an existing file is returned as it is
FileStat(w) ==
    /\ dlCalls[w].pc = "stat"
    /\ dlCalls' = [dlCalls EXCEPT ![w].pc =
                      IF dlFiles[w] # "absent" THEN "ok" ELSE "request"]
    /\ UNCHANGED <<mainVars, fileVars, uiVars, batchVars, dlFiles, batchCtxDone>>

\* book.go 886-948: the request, and after a non-200 answer the alternates, end
\* with a 200 answer to write or with a continue; with batchCtx cancelled
\* client.Do fails
FileRequest(w) ==
    /\ dlCalls[w].pc = "request"
    /\ \E answer \in IF batchCtxDone THEN {"do"} ELSE {"200", "do", "status"} :
          LET c == IF answer = "200" THEN [dlCalls[w] EXCEPT !.pc = "create"]
                   ELSE NextPass(dlCalls[w], answer)
          IN  /\ dlCalls' = [dlCalls EXCEPT ![w] = c]
              /\ batchCtxDone' = CancelledBy(c)
    /\ UNCHANGED <<mainVars, fileVars, uiVars, batchVars, dlFiles>>

\* os.Create(fullPath), book.go 952-956: an empty file, or no file
FileCreate(w) ==
    /\ dlCalls[w].pc = "create"
    /\ \E created \in BOOLEAN :
          LET c == IF created THEN [dlCalls[w] EXCEPT !.pc = "copy"]
                   ELSE NextPass(dlCalls[w], "create")
          IN  /\ dlCalls' = [dlCalls EXCEPT ![w] = c]
              /\ dlFiles' = [dlFiles EXCEPT ![w] = IF created THEN "partial" ELSE @]
              /\ batchCtxDone' = CancelledBy(c)
    /\ UNCHANGED <<mainVars, fileVars, uiVars, batchVars>>

\* io.Copy(bufWriter, res.Body), book.go 959-960: the body arrives whole, or
\* the copy stops with an error, as it does when batchCtx is cancelled
FileCopy(w) ==
    /\ dlCalls[w].pc = "copy"
    /\ \E copied \in IF batchCtxDone THEN {FALSE} ELSE BOOLEAN :
          dlCalls' = [dlCalls EXCEPT ![w] =
                         [@ EXCEPT !.pc = "close", !.copyErr = ~copied]]
    /\ UNCHANGED <<mainVars, fileVars, uiVars, batchVars, dlFiles, batchCtxDone>>

\* book.go 963-993: Flush and Close, then the three error checks, each of
\* which removes the file and continues; without an error the call returns
FileClose(w) ==
    /\ dlCalls[w].pc = "close"
    /\ \E flushErr, closeErr \in BOOLEAN :
          LET failed == dlCalls[w].copyErr \/ flushErr \/ closeErr
              lastErr == IF dlCalls[w].copyErr THEN "copy"
                         ELSE IF flushErr THEN "flush" ELSE "close"
              c == IF failed THEN NextPass(dlCalls[w], lastErr)
                   ELSE [dlCalls[w] EXCEPT !.pc = "ok"]
          IN  /\ dlCalls' = [dlCalls EXCEPT ![w] = c]
              /\ dlFiles' = [dlFiles EXCEPT ![w] =
                                IF failed THEN AfterFailedWrite(@) ELSE "complete"]
              /\ batchCtxDone' = CancelledBy(c)
    /\ UNCHANGED <<mainVars, fileVars, uiVars, batchVars>>

\* the context downloadImages was given is cancelled while goroutines run
CancelBatch ==
    /\ ~batchCtxDone
    /\ \E w \in DOMAIN dlCalls : dlCalls[w].pc \notin {"ok", "err"}
    /\ batchCtxDone' = TRUE
    /\ UNCHANGED <<mainVars, fileVars, uiVars, batchVars, dlCalls, dlFiles>>

WritesIdle ==
    /\ dlCalls = <<>>
    /\ dlFiles = <<>>
    /\ batchCtxDone = FALSE

----------------------------------------------------------------------------
(* Output files: book.go 848 and 450 *)

\* the descriptors of FindAllImages (book.go 832-838) by what names their file
ImageItems ==
    { [kind |-> "image", PageNumber |-> p, ImageNumber |-> i] :
         p \in 1..MaxFormatNumber, i \in 1..MaxFormatNumber }

\* the pages of pagesToCapture (main.go 240-245)
PageItems ==
    { [kind |-> "page", PageNumber |-> p, ImageNumber |-> 0] : p \in 1..MaxFormatNumber }

\* a name that runs the two numbers together
FullPathUnseparated(item) ==
    IF item.kind = "image"
      THEN <<"imageOutputRoot/">> \o Itoa(item.PageNumber) \o Itoa(item.ImageNumber)
               \o <<".jpg">>
      ELSE <<"interactiveOutputRoot/", "interactive-">> \o Itoa(item.PageNumber)
               \o <<".png">>

\* filepath.Join(outputFolder, fmt.Sprintf("%d-%d.jpg", PageNumber, ImageNumber))
\* (book.go 848, main.go 117) and
\* filepath.Join(outputFolder, fmt.Sprintf("interactive-%d.png", pageNumber))
\* (book.go 450, main.go 298), as the characters of the path
FullPath(item) ==
    IF item.kind = "image"
      THEN <<"imageOutputRoot/">> \o Itoa(item.PageNumber) \o <<"-">>
               \o Itoa(item.ImageNumber) \o <<".jpg">>
      ELSE <<"interactiveOutputRoot/", "interactive-">> \o Itoa(item.PageNumber)
               \o <<".png">>

\* os.Create(fullPath) of book.go 952 or os.WriteFile(fullPath, ...) of
\* book.go 708, by goroutine w for its item
OpenFile(w) ==
    /\ w \in DOMAIN workItems
    /\ openedFiles[w] = <<>>
    /\ openedFiles' = [openedFiles EXCEPT ![w] = FullPath(workItems[w])]
    /\ UNCHANGED <<mainVars, workItems, writeVars, uiVars, batchVars>>

FilesIdle ==
    /\ workItems = <<>>
    /\ openedFiles = <<>>

SidesIdle == FilesIdle /\ WritesIdle /\ UiIdle /\ BatchIdle

----------------------------------------------------------------------------
\* Get is not followed and the context is never cancelled
ArgsIdle ==
    /\ SidesIdle
    /\ idOrUrl = <<>>
    /\ parsedId = NoParse
    /\ imagesField = [kind |-> "other", elems |-> <<>>]
    /\ imageUrls = NoUrls
    /\ ctxDone = FALSE

\* every image file of the book may or may not be there already
Init ==
    /\ book \in { b \in Books(MaxPages, MaxImages) :
                     Len(FindAllImages(b)) <= MaxImages }
    /\ conc \in 1..MaxConcurrency
    /\ disk \in SUBSET {ImagePath(img) : img \in Range(FindAllImages(book))}
    /\ DownloadStart
    /\ CaptureIdle
    /\ PipelineIdle
    /\ ArgsIdle

Next ==
    \/ FindAllImagesCall
    \/ DownloadBegin
    \/ \E i \in DOMAIN worker : Go(i)
    \/ \E i \in DOMAIN worker : Stat(i)
    \/ \E i \in DOMAIN worker : Attempt(i)
    \/ \E i \in DOMAIN worker : Lock(i)
    \/ \E i \in DOMAIN worker : AppendUnlock(i)
    \/ Wait
    \/ Return
    \/ Rerun

Spec == Init /\ [][Next]_vars

\* downloadImages under a context that may be cancelled during a batch; no
\* image file is there when it begins
InitCancel ==
    /\ book \in { b \in Books(MaxPages, MaxImages) :
                     Len(FindAllImages(b)) <= MaxImages }
    /\ conc \in 1..MaxConcurrency
    /\ disk = {}
    /\ DownloadStart
    /\ CaptureIdle
    /\ PipelineIdle
    /\ ArgsIdle

NextCancel ==
    \/ FindAllImagesCall
    \/ DownloadBegin
    \/ \E i \in DOMAIN worker : Go(i)
    \/ \E i \in DOMAIN worker : Stat(i)
    \/ \E i \in DOMAIN worker : Attempt(i)
    \/ \E i \in DOMAIN worker : Lock(i)
    \/ \E i \in DOMAIN worker : AppendUnlock(i)
    \/ Wait
    \/ Return
    \/ CancelParent

SpecCancel == InitCancel /\ [][NextCancel]_vars

\* Book.FindAllImages on its own
InitFind ==
    /\ book \in Books(MaxFindPages, MaxImages)
    /\ conc = 1
    /\ disk = {}
    /\ DownloadStart
    /\ CaptureIdle
    /\ PipelineIdle
    /\ ArgsIdle

NextFind == FindAllImagesCall

SpecFind == InitFind /\ [][NextFind]_vars

\* captureInteractivePages on a book of 0..MaxCapturePages pages; any of the
\* screenshots to take may be there already
InitCapture ==
    /\ book \in { MkBook([i \in 1..n |-> 0], shape) :
                     n \in 0..MaxCapturePages, shape \in UrlShapes }
    /\ conc \in 1..MaxConcurrency
    /\ disk = {}
    /\ DownloadStart
    /\ batchArg \in 0..MaxBatchArg
    /\ shots \in SUBSET Range(PagesToCapture(PageCount))
    /\ capPc = "start"
    /\ CaptureStart
    /\ PipelineIdle
    /\ ArgsIdle

NextCapture ==
    \/ CaptureBegin
    \/ SkipExisting
    \/ CallerLock
    \/ SkipAppend
    \/ OddAppend
    \/ CaptureGo
    \/ \E k \in DOMAIN capWorker : CaptureQuiet(k)
    \/ \E k \in DOMAIN capWorker : CaptureLock(k)
    \/ \E k \in DOMAIN capWorker : CaptureAppend(k)
    \/ CaptureWait
    \/ Report
    \/ RetryCall
    \/ RetryQuiet
    \/ RetryFailed
    \/ RetryLock
    \/ RetryAppend
    \/ RetryReturn

SpecCapture == InitCapture /\ [][NextCapture]_vars

\* captureInteractivePages on a book of up to MaxLivePages pages; the
\* screenshot of page 2 may be there already
InitCaptureLive ==
    /\ book \in { MkBook([i \in 1..n |-> 0], shape) :
                     n \in 0..MaxLivePages, shape \in UrlShapes }
    /\ conc \in 1..MaxConcurrency
    /\ disk = {}
    /\ DownloadStart
    /\ batchArg \in 0..MaxBatchArg
    /\ shots \in SUBSET ({2} \cap Range(PagesToCapture(PageCount)))
    /\ capPc = "start"
    /\ CaptureStart
    /\ PipelineIdle
    /\ ArgsIdle

\* the steps of captureInteractivePages under the Go scheduler, which lets
\* every goroutine that can take a step take it: no lock is held across a
\* blocking call, every sleep ends, and chromedp.Run returns when the
\* deadline of its context passes
SpecCaptureLive ==
    InitCaptureLive /\ [][NextCapture]_vars /\ WF_vars(NextCapture)

\* the captured list of a book of n pages of which the pages in S were captured
RECURSIVE CapturedList(_, _)
CapturedList(S, n) ==
    IF S = {} THEN <<>>
    ELSE LET p == CHOOSE q \in S : \A r \in S : q <= r
         IN  CapturedFor(p, n) \o CapturedList(S \ {p}, n)

\* the two generators on their own: the lists are what downloadImages and
\* captureInteractivePages return for a book, the PDF is there or not, and
\* force is set or not
InitAssemble ==
    /\ book \in Books(MaxAssemblePages, MaxAssembleImages)
    /\ conc = 1
    /\ disk = {ImagePath(img) : img \in Range(FindAllImages(book))}
    /\ images = FindAllImages(book)
    /\ dlPc = "done"
    /\ dlStatus = "ok"
    /\ dlResult = [k \in DOMAIN FindAllImages(book) |->
                     Downloaded(FindAllImages(book)[k], FindAllImages(book)[k].Url)]
    /\ batchIdx = 0
    /\ nextIdx = 1
    /\ worker = <<>>
    /\ downloadedImages = <<>>
    /\ egErr = FALSE
    /\ mutex = 0
    /\ netRequests = 0
    /\ run = 1
    /\ firstRun = [status |-> "none", result |-> <<>>]
    /\ resumed = FALSE
    /\ batchArg = 0
    /\ pagesToCapture = <<>>
    /\ batchIndex = 0
    /\ capNext = 1
    /\ capWorker = <<>>
    /\ capturedPages = <<>>
    /\ failedPages = <<>>
    /\ capMutex = 0
    /\ retryPos = 1
    /\ retryCall = NoCall
    /\ retryCalls = <<>>
    /\ force \in BOOLEAN
    /\ pdf \in {"absent", "old"}
    /\ interactive \in BOOLEAN
    /\ shots \in SUBSET Range(PagesToCapture(PageCount))
    /\ IF interactive /\ shots # {}
         THEN /\ capPc = "done"
              /\ capStatus = "ok"
              /\ capResult = CapturedList(shots, PageCount)
              /\ phase = "encodeInteractive"
         ELSE /\ ~interactive
              /\ shots = {}
              /\ capPc = "idle"
              /\ capStatus = "none"
              /\ capResult = <<>>
              /\ phase = "encode"
    /\ phaseLog = <<>>
    /\ encodeCall = NoEncode
    /\ encoderInput = <<>>
    /\ encoderCalls = 0
    /\ pipeStatus = "none"
    /\ ArgsIdle

NextAssemble ==
    \/ GeneratePDF
    \/ GenerateInteractivePDF

SpecAssemble == InitAssemble /\ [][NextAssemble]_vars

\* the books downloadPdf2 is followed on: up to MaxPipelinePages pages of at
\* most one image, and those of at most MaxPipelineImages images a page that
\* have one image more than ImageCap
PipelineBooks ==
    { b \in Books(MaxPipelinePages, MaxPipelineImages) :
        \/ \A i \in DOMAIN b.Pages : Len(b.Pages[i].ImageUrls) <= 1
        \/ /\ Len(FindAllImages(b)) = ImageCap + 1
           /\ \A i \in DOMAIN b.Pages : Len(b.Pages[i].ImageUrls) >= 1 }

\* downloadPdf2 from its call to its return; an earlier run may have left the
\* first image of the book and, when interactive, the screenshot of page 2;
\* --force is given only when there is a PDF to overwrite
InitPipeline ==
    /\ book \in PipelineBooks
    /\ conc \in 1..MaxConcurrency
    /\ disk \in SUBSET ({<<1, 1>>} \cap
                          {ImagePath(img) : img \in Range(FindAllImages(book))})
    /\ dlPc = "idle"
    /\ DownloadLocals
    /\ interactive \in BOOLEAN
    /\ batchArg \in IF interactive /\ conc = 1 THEN 0..MaxPipelineBatchArg ELSE {0}
    /\ shots \in IF interactive
                   THEN {{}, {2} \cap Range(PagesToCapture(PageCount))}
                   ELSE {{}}
    /\ capPc = "idle"
    /\ CaptureStart
    /\ pdf \in {"absent", "old"}
    /\ force \in IF pdf = "old" THEN BOOLEAN ELSE {FALSE}
    /\ phase = "get"
    /\ phaseLog = <<>>
    /\ encodeCall = NoEncode
    /\ encoderInput = <<>>
    /\ encoderCalls = 0
    /\ pipeStatus = "none"
    /\ ArgsIdle

NextPipeline ==
    \/ Get
    \/ StatPdf
    \/ FindAllImagesCall
    \/ DownloadBegin
    \/ \E i \in DOMAIN worker : Go(i)
    \/ \E i \in DOMAIN worker : Stat(i)
    \/ \E i \in DOMAIN worker : Attempt(i)
    \/ \E i \in DOMAIN worker : Lock(i)
    \/ \E i \in DOMAIN worker : AppendUnlock(i)
    \/ Wait
    \/ Return
    \/ DownloadReturned
    \/ CaptureBegin
    \/ SkipExisting
    \/ CallerLock
    \/ SkipAppend
    \/ OddAppend
    \/ CaptureGo
    \/ \E k \in DOMAIN capWorker : CaptureQuiet(k)
    \/ \E k \in DOMAIN capWorker : CaptureLock(k)
    \/ \E k \in DOMAIN capWorker : CaptureAppend(k)
    \/ CaptureWait
    \/ Report
    \/ RetryCall
    \/ RetryQuiet
    \/ RetryFailed
    \/ RetryLock
    \/ RetryAppend
    \/ RetryReturn
    \/ CaptureReturned
    \/ GeneratePDF
    \/ GenerateInteractivePDF

SpecPipeline == InitPipeline /\ [][NextPipeline]_vars

\* everything but Get is at rest
AllIdle ==
    /\ book = [Pages |-> <<>>]
    /\ conc = 1
    /\ disk = {}
    /\ dlPc = "idle"
    /\ DownloadLocals
    /\ CaptureIdle
    /\ PipelineIdle
    /\ ctxDone = FALSE
    /\ SidesIdle

\* ParseId on every text of up to MaxIdLen characters
InitParseId ==
    /\ AllIdle
    /\ idOrUrl \in Texts(MaxIdLen)
    /\ parsedId = NoParse
    /\ imagesField = [kind |-> "other", elems |-> <<>>]
    /\ imageUrls = NoUrls

NextParseId == ParseIdCall

SpecParseId == InitParseId /\ [][NextParseId]_vars

\* "abcde/fg123", "https://host/abcde/fg123/extra" and "not-an-id"
GetArgs ==
    { <<"a", "a", "/", "a">>,
      <<"https:", "/", "/", "a", "/", "a", "/", "a", "a", "/", "a">>,
      <<"a", "-", "a">> }

\* Get on a manifest page whose image field is any of Fields
InitGet ==
    /\ AllIdle
    /\ idOrUrl \in GetArgs
    /\ parsedId = NoParse
    /\ imagesField \in Fields(MaxFieldLen, MaxNameLen)
    /\ imageUrls = NoUrls

NextGet ==
    \/ ParseIdCall
    \/ GetPages

SpecGet == InitGet /\ [][NextGet]_vars

\* two goroutines in flight, each with any image descriptor or page to capture
InitFiles ==
    /\ book = [Pages |-> <<>>]
    /\ conc = 1
    /\ disk = {}
    /\ dlPc = "idle"
    /\ DownloadLocals
    /\ CaptureIdle
    /\ PipelineIdle
    /\ idOrUrl = <<>>
    /\ parsedId = NoParse
    /\ imagesField = [kind |-> "other", elems |-> <<>>]
    /\ imageUrls = NoUrls
    /\ ctxDone = FALSE
    /\ workItems \in [1..2 -> ImageItems \cup PageItems]
    /\ openedFiles = [w \in 1..2 |-> <<>>]
    /\ WritesIdle
    /\ UiIdle
    /\ BatchIdle

NextFiles == \E w \in 1..2 : OpenFile(w)

SpecFiles == InitFiles /\ [][NextFiles]_vars

\* two goroutines of one batch (main.go 112-166), each about to look for the
\* file of its descriptor, which an earlier run may have written
InitWrites ==
    /\ book = [Pages |-> <<>>]
    /\ conc = 1
    /\ disk = {}
    /\ dlPc = "idle"
    /\ DownloadLocals
    /\ CaptureIdle
    /\ PipelineIdle
    /\ idOrUrl = <<>>
    /\ parsedId = NoParse
    /\ imagesField = [kind |-> "other", elems |-> <<>>]
    /\ imageUrls = NoUrls
    /\ ctxDone = FALSE
    /\ FilesIdle
    /\ dlCalls = [w \in 1..DownloadWriters |-> NewDownload]
    /\ dlFiles \in [1..DownloadWriters -> {"absent", "complete"}]
    /\ batchCtxDone = FALSE
    /\ UiIdle
    /\ BatchIdle

NextWrites ==
    \/ \E w \in DOMAIN dlCalls : FileStat(w)
    \/ \E w \in DOMAIN dlCalls : FileRequest(w)
    \/ \E w \in DOMAIN dlCalls : FileCreate(w)
    \/ \E w \in DOMAIN dlCalls : FileCopy(w)
    \/ \E w \in DOMAIN dlCalls : FileClose(w)
    \/ CancelBatch

SpecWrites == InitWrites /\ [][NextWrites]_vars

\* RunTerminalUI (termui.go 353-356): the program starts on initialModel
InitUi ==
    /\ book = [Pages |-> <<>>]
    /\ conc = 1
    /\ disk = {}
    /\ dlPc = "idle"
    /\ DownloadLocals
    /\ CaptureIdle
    /\ PipelineIdle
    /\ idOrUrl = <<>>
    /\ parsedId = NoParse
    /\ imagesField = [kind |-> "other", elems |-> <<>>]
    /\ imageUrls = NoUrls
    /\ ctxDone = FALSE
    /\ FilesIdle
    /\ WritesIdle
    /\ ui = InitialModel
    /\ uiQuit = FALSE
    /\ BatchIdle

NextUi == KeyPress

SpecUi == InitUi /\ [][NextUi]_vars

RECURSIVE SeqsUpTo(_, _)
SeqsUpTo(S, n) ==
    IF n = 0 THEN {<<>>}
    ELSE SeqsUpTo(S, n - 1)
           \cup { Append(q, x) : q \in { r \in SeqsUpTo(S, n - 1) : Len(r) = n - 1 },
                                 x \in S }

\* downloadBatch at the head of its loop (termui.go 495) over 1..MaxBookFiles
\* book files; the PDF of a book may be there from an earlier batch
InitBatch ==
    /\ book = [Pages |-> <<>>]
    /\ conc = 1
    /\ disk = {}
    /\ dlPc = "idle"
    /\ DownloadLocals
    /\ CaptureIdle
    /\ PipelineIdle
    /\ idOrUrl = <<>>
    /\ parsedId = NoParse
    /\ imagesField = [kind |-> "other", elems |-> <<>>]
    /\ imageUrls = NoUrls
    /\ ctxDone = FALSE
    /\ FilesIdle
    /\ WritesIdle
    /\ UiIdle
    /\ txtFiles \in SeqsUpTo(FileContents, MaxBookFiles) \ {<<>>}
    /\ skipExisting \in BOOLEAN
    /\ bookFolders \in SUBSET BatchBooks
    /\ bookPdfs \in SUBSET bookFolders
    /\ filePos = 1
    /\ downloadedURLs = {}
    /\ outcomes = <<>>

NextBatch == ProcessFile

SpecBatch == InitBatch /\ [][NextBatch]_vars

----------------------------------------------------------------------------
(* Claims *)

SamePlace(a, b) ==
    /\ a.PageNumber = b.PageNumber
    /\ a.ImageNumber = b.ImageNumber
    /\ a.OverallOrder = b.OverallOrder

OutOfOrder(s) ==
    \E i, j \in DOMAIN s : i < j /\ s[i].OverallOrder > s[j].OverallOrder

\* C1: whenever downloadImages returns successfully, the returned list is
\* strictly ascending by OverallOrder, whatever order the workers completed in.
C1_SortedResult ==
    dlStatus = "ok" =>
        \A i, j \in DOMAIN dlResult :
            i < j => dlResult[i].OverallOrder < dlResult[j].OverallOrder

\* a successful return of two batches whose appends were out of order
C1_Witness ==
    /\ dlStatus = "ok"
    /\ batchIdx >= 1
    /\ OutOfOrder(downloadedImages)

\* C2: FindAllImages numbers the descriptors 1, 2, ..., N in list order, visits
\* pages in page order and images in intra-page order, and PageNumber and
\* ImageNumber are 1-based positions in the book.
C2_DenseOrder ==
    dlPc = "start" =>
        /\ \A k \in DOMAIN images : images[k].OverallOrder = k
        /\ \A k \in DOMAIN images :
              /\ images[k].PageNumber \in 1..Len(book.Pages)
              /\ images[k].ImageNumber \in
                    1..Len(book.Pages[images[k].PageNumber].ImageUrls)
              /\ images[k].Url =
                    book.Pages[images[k].PageNumber].ImageUrls[images[k].ImageNumber]
        /\ \A k, l \in DOMAIN images :
              k < l =>
                \/ images[k].PageNumber < images[l].PageNumber
                \/ /\ images[k].PageNumber = images[l].PageNumber
                   /\ images[k].ImageNumber < images[l].ImageNumber
        /\ \A p \in DOMAIN book.Pages :
              \A j \in DOMAIN book.Pages[p].ImageUrls :
                \E k \in DOMAIN images :
                    images[k].PageNumber = p /\ images[k].ImageNumber = j

\* a book with an empty page between a page of several images and another page
C2_Witness ==
    /\ dlPc = "start"
    /\ Len(book.Pages) = 3
    /\ Len(book.Pages[1].ImageUrls) >= 2
    /\ Len(book.Pages[2].ImageUrls) = 0
    /\ Len(book.Pages[3].ImageUrls) >= 1
    /\ Len(images) >= 3

SomeItemFailed == \E i \in DOMAIN worker : worker[i].pc = "failed"

\* C3: once an item of a batch has ended in a terminal failure, downloadImages
\* returns an error and no list, no item of a later batch is ever started, and
\* the files of the batches completed before are on disk.
C3_FailFast ==
    SomeItemFailed =>
        /\ dlPc # "close"
        /\ dlStatus # "ok"
        /\ dlPc = "done" => (dlStatus = "err" /\ dlResult = <<>>)
        /\ \A j \in DOMAIN worker :
              j > BatchLast(batchIdx, Len(images)) => worker[j].pc = "idle"
        /\ \A j \in DOMAIN worker :
              j < BatchFirst(batchIdx, Len(images)) =>
                  (worker[j].pc = "done" /\ ImagePath(images[j]) \in disk)

\* the call has returned after a failure in the first of two batches, in which
\* another item had succeeded
C3_Witness ==
    /\ dlPc = "done"
    /\ SomeItemFailed
    /\ batchIdx = 0
    /\ NumBatches(Len(images)) > 1
    /\ \E j \in DOMAIN worker : worker[j].pc = "done"

\* C4: for a non-empty descriptor list a successful return holds exactly one
\* DownloadedImage per descriptor (same PageNumber, ImageNumber, OverallOrder).
C4_OnePerDescriptor ==
    (dlStatus = "ok" /\ images # <<>>) =>
        /\ dlResult # <<>>
        /\ Len(dlResult) = Len(images)
        /\ \A k \in DOMAIN images :
              Cardinality({r \in DOMAIN dlResult : SamePlace(dlResult[r], images[k])}) = 1

\* a successful first run of two batches in which some file had to be downloaded
C4_Witness ==
    /\ dlStatus = "ok"
    /\ run = 1
    /\ Len(images) > DownloadBatchSize
    /\ ~resumed
    /\ netRequests > 0

\* C5: a second call on the same descriptors, made when every output file
\* exists, issues no request and returns the list the first call returned
\* (stated for a first and a second call that both return successfully).
C5_ResumeIdentical ==
    (run = 2 /\ dlPc = "done" /\ resumed
        /\ firstRun.status = "ok" /\ dlStatus = "ok") =>
        /\ netRequests = 0
        /\ dlResult = firstRun.result

\* what does hold of the second call: no request, and the same list up to Url
C5_ResumeSamePlaces ==
    (run = 2 /\ dlPc = "done" /\ resumed
        /\ firstRun.status = "ok" /\ dlStatus = "ok") =>
        /\ netRequests = 0
        /\ Len(dlResult) = Len(firstRun.result)
        /\ \A k \in DOMAIN dlResult :
              /\ SamePlace(dlResult[k], firstRun.result[k])
              /\ dlResult[k].FullPath = firstRun.result[k].FullPath

EntriesOf(p) == {i \in DOMAIN capturedPages : capturedPages[i].PageNumber = p}

EntriesBackedBy(f) == {i \in DOMAIN capturedPages : capturedPages[i].FullPath = f}

IsSuccess(k) == capWorker[k].pc \in {"ondisk", "captured", "retried"}

FailedInPrimary == {k \in DOMAIN capWorker : capWorker[k].pc \in {"failed", "retried"}}

PrimaryOver == capPc \in {"report", "retry", "retryAppend", "done"}

\* C6: the pages selected for capture are exactly 1 and every even n with
\* 2 <= n <= pageCount, ascending and without repetition.
C6_PagesToCapture ==
    capPc \notin {"idle", "start"} =>
        /\ Range(pagesToCapture) = {1} \cup {n \in 2..PageCount : n % 2 = 0}
        /\ \A i, j \in DOMAIN pagesToCapture :
              i < j => pagesToCapture[i] < pagesToCapture[j]

\* pageCount 7 gives [1, 2, 4, 6]
C6_Witness == PageCount = 7 /\ pagesToCapture = <<1, 2, 4, 6>>

\* C7: a page n recorded as captured (found on disk, rendered by a worker, or
\* rendered by the retry pass) has exactly one entry, backed by its own file;
\* an even n < pageCount has a second entry, for page n + 1, backed by the file
\* of n; page 1 and an even n = pageCount have no second entry.
C7_SpreadEntries ==
    \A k \in DOMAIN capWorker :
        LET n == pagesToCapture[k] IN
        IsSuccess(k) =>
            /\ Cardinality(EntriesOf(n)) = 1
            /\ \A i \in EntriesOf(n) : capturedPages[i].FullPath = n
            /\ IF n % 2 = 0 /\ n < PageCount
                 THEN /\ Cardinality(EntriesOf(n + 1)) = 1
                      /\ EntriesBackedBy(n) = EntriesOf(n) \cup EntriesOf(n + 1)
                 ELSE EntriesBackedBy(n) = EntriesOf(n)

\* in a book of 7 pages, one spread was found on disk, one rendered by a
\* worker and one rendered by the retry pass
C7_Witness ==
    /\ capPc = "done"
    /\ PageCount = 7
    /\ \E a, b, c \in DOMAIN capWorker :
          /\ pagesToCapture[a] > 1 /\ capWorker[a].pc = "ondisk"
          /\ pagesToCapture[b] > 1 /\ capWorker[b].pc = "captured"
          /\ pagesToCapture[c] > 1 /\ capWorker[c].pc = "retried"

\* C8: a failed render is recorded in failedPages and aborts nothing: when the
\* primary pass is over every requested page has been attempted or found on
\* disk, whichever renders failed.
C8_FailureAbortsNothing ==
    /\ PrimaryOver => \A k \in DOMAIN capWorker : capWorker[k].pc # "idle"
    /\ \A k \in FailedInPrimary : pagesToCapture[k] \in Range(failedPages)
    /\ \A i \in DOMAIN failedPages : PositionOf(failedPages[i]) \in FailedInPrimary

\* a page of the first batch failed, another page of that batch was captured,
\* and a page of a later batch was rendered all the same
C8_Witness ==
    /\ capPc = "done"
    /\ CaptureNumBatches > 1
    /\ \E a, b, c \in DOMAIN capWorker :
          /\ a <= CaptureBatchLast(0) /\ capWorker[a].pc = "failed"
          /\ b <= CaptureBatchLast(0) /\ capWorker[b].pc = "captured"
          /\ c > CaptureBatchLast(0) /\ capWorker[c].pc \in {"captured", "failed"}

RetryRan == \E q \in DOMAIN retryCalls : retryCalls[q] > 0

RendersInFlight ==
    Cardinality({k \in DOMAIN capWorker : capWorker[k].pc = "quiet"})
        + (IF retryCall.pc \in {"stat", "run", "write"} THEN 1 ELSE 0)

\* C10: the serial retry pass runs if and only if at least one but not all
\* requested pages failed in the primary pass; it starts only after every
\* primary batch has finished, calls the renderer exactly once for every page
\* of failedPages, and has at most one render in flight.
C10_SerialRetry ==
    /\ capPc = "done" =>
          /\ RetryRan <=> (FailedInPrimary # {} /\ FailedInPrimary # DOMAIN capWorker)
          /\ RetryRan =>
                \A k \in DOMAIN capWorker :
                    retryCalls[pagesToCapture[k]] =
                        IF k \in FailedInPrimary THEN 1 ELSE 0
    /\ \A q \in DOMAIN retryCalls : retryCalls[q] <= 1
    /\ (RetryRan \/ capPc \in {"retry", "retryAppend"}) =>
          /\ batchIndex + 1 = CaptureNumBatches
          /\ capNext > Len(pagesToCapture)
          /\ CaptureActive = {}
          /\ RendersInFlight <= 1

\* two pages failed in a primary pass of several batches; the retry pass
\* captured one of them and the other still fails
C10_Witness ==
    /\ capPc = "done"
    /\ CaptureNumBatches > 1
    /\ \E a, b \in DOMAIN capWorker :
          /\ capWorker[a].pc = "retried"
          /\ capWorker[b].pc = "failed"
          /\ retryCalls[pagesToCapture[a]] = 1
          /\ retryCalls[pagesToCapture[b]] = 1

\* the requested pages that were captured by neither pass
StillFailing == {pagesToCapture[k] : k \in {j \in DOMAIN capWorker : capWorker[j].pc = "failed"}}

\* C11: when at least one page was captured, the page numbers the capture phase
\* holds as failed when it returns are exactly those that still fail after the
\* serial retry pass: a page that succeeded on retry is not among them.
C11_ReturnsStillFailing ==
    (capPc = "done" /\ capStatus = "ok") =>
        Range(failedPages) = StillFailing

\* what does hold at the return: every requested page is either in the
\* returned list or still failing and in failedPages
C11_EveryPageAccounted ==
    (capPc = "done" /\ capStatus = "ok") =>
        \A k \in DOMAIN capWorker :
            \/ /\ IsSuccess(k)
               /\ \E i \in DOMAIN capResult : capResult[i].PageNumber = pagesToCapture[k]
            \/ /\ capWorker[k].pc = "failed"
               /\ pagesToCapture[k] \in Range(failedPages)
               /\ \A i \in DOMAIN capResult : capResult[i].PageNumber # pagesToCapture[k]

\* entries of the two lists by page number
DownloadedOf(p) == {i \in DOMAIN dlResult : dlResult[i].PageNumber = p}

CapturedOf(p) == {i \in DOMAIN capResult : capResult[i].PageNumber = p}

AssembledPages ==
    {dlResult[i].PageNumber : i \in DOMAIN dlResult}
        \cup {capResult[i].PageNumber : i \in DOMAIN capResult}

LastOf(S) == CHOOSE i \in S : \A j \in S : j <= i

\* the path a page is to be represented by: its capture if it has one, else
\* the last of its downloaded images
ExpectedPath(p) ==
    IF CapturedOf(p) # {}
      THEN PngPath(capResult[LastOf(CapturedOf(p))].FullPath)
      ELSE JpgPath(dlResult[LastOf(DownloadedOf(p))].FullPath)

RankOf(p) == Cardinality({q \in AssembledPages : q <= p})

InteractiveEncoded ==
    /\ encodeCall.fn = "generateInteractivePDF"
    /\ encodeCall.status \in {"ok", "err"}

\* C12: in what generateInteractivePDF hands to the encoder, a page that has a
\* downloaded and a captured asset is given by the captured asset's path and
\* by none of its downloaded paths; a page that has only downloaded assets is
\* given by the path of one of them.
C12_CapturePrecedence ==
    InteractiveEncoded =>
        \A p \in AssembledPages :
            /\ (DownloadedOf(p) # {} /\ CapturedOf(p) # {}) =>
                  /\ \E i \in CapturedOf(p) :
                        PngPath(capResult[i].FullPath) \in Range(encoderInput)
                  /\ \A i \in DownloadedOf(p) :
                        JpgPath(dlResult[i].FullPath) \notin Range(encoderInput)
            /\ (DownloadedOf(p) # {} /\ CapturedOf(p) = {}) =>
                  \E i \in DownloadedOf(p) :
                        JpgPath(dlResult[i].FullPath) \in Range(encoderInput)

\* the encoder was given a book in which one page has both assets and another
\* page has downloaded images only
C12_Witness ==
    /\ InteractiveEncoded
    /\ encoderCalls = 1
    /\ \E p, q \in AssembledPages :
          /\ DownloadedOf(p) # {} /\ CapturedOf(p) # {}
          /\ DownloadedOf(q) # {} /\ CapturedOf(q) = {}

\* C13: what generateInteractivePDF hands to the encoder has one path per
\* distinct page number of the two lists, in ascending page order; a page with
\* several downloaded images and no capture is given by the last of them.
C13_OnePathPerPage ==
    InteractiveEncoded =>
        /\ Len(encoderInput) = Cardinality(AssembledPages)
        /\ \A p \in AssembledPages : encoderInput[RankOf(p)] = ExpectedPath(p)

\* three pages: one with two downloaded images and no capture, one with a
\* capture and no image, one with both
C13_Witness ==
    /\ InteractiveEncoded
    /\ Cardinality(AssembledPages) = 3
    /\ \E p, q, r \in AssembledPages :
          /\ Cardinality(DownloadedOf(p)) = 2 /\ CapturedOf(p) = {}
          /\ DownloadedOf(q) = {} /\ CapturedOf(q) # {}
          /\ DownloadedOf(r) # {} /\ CapturedOf(r) # {}

\* what each generator is to hand to the encoder
ExpectedInput(fn) ==
    IF fn = "generatePDF"
      THEN [k \in DOMAIN dlResult |-> JpgPath(dlResult[k].FullPath)]
      ELSE [k \in 1..Cardinality(AssembledPages) |->
              ExpectedPath(CHOOSE p \in AssembledPages : RankOf(p) = k)]

\* C14: a call of generatePDF or generateInteractivePDF made when the target
\* exists and force is not set returns the already-exists error, calls no
\* encoder and leaves the file as it is; any other call hands the ordered
\* paths to the encoder once and succeeds exactly when the encoder does.
C14_EncodeStep ==
    [][ (encodeCall.fn = "none" /\ encodeCall'.fn # "none") =>
          IF pdf # "absent" /\ ~force
            THEN /\ encodeCall'.status = "exists"
                 /\ pdf' = pdf
                 /\ encoderCalls' = encoderCalls
                 /\ encoderInput' = encoderInput
            ELSE /\ encoderCalls' = encoderCalls + 1
                 /\ encoderInput' = ExpectedInput(encodeCall'.fn)
                 /\ encodeCall'.status \in {"ok", "err"}
                 /\ (encodeCall'.status = "ok") <=> (pdf' = "new")
      ]_vars

\* generatePDF was called on several images with the file in place and no force
C14_Witness ==
    /\ encodeCall = [fn |-> "generatePDF", status |-> "exists"]
    /\ pdf = "old"
    /\ ~force
    /\ Len(dlResult) >= 2
    /\ encoderCalls = 0

\* C15: PageImage.Download makes at most 3 passes of its retry loop; a pass
\* that succeeds ends the call and is followed by no other pass; the terminal
\* error is returned only by the failure of the third pass; nothing is slept
\* before pass 0 and 2^k seconds are slept before pass k (k = 1, 2).
C15_ThreeAttempts ==
    [][ \A i \in DOMAIN worker' :
          /\ worker'[i].pc = "attempt" =>
                /\ worker'[i].attempt \in 0..2
                /\ worker'[i].slept = [k \in 1..worker'[i].attempt |-> 2 ^ k]
          /\ (i \in DOMAIN worker /\ worker'[i] # worker[i]) =>
                /\ worker'[i].pc = "attempt" =>
                      \/ /\ worker[i].pc = "stat"
                         /\ worker'[i].attempt = 0
                         /\ ImagePath(images[i]) \notin disk
                      \/ /\ worker[i].pc = "attempt"
                         /\ worker'[i].attempt = worker[i].attempt + 1
                         /\ disk' = disk
                /\ (worker[i].pc = "attempt" /\ worker'[i].pc # "attempt") =>
                      \/ /\ worker'[i].pc = "lock"
                         /\ ImagePath(images[i]) \in disk'
                      \/ /\ worker'[i].pc = "failed"
                         /\ worker[i].attempt = 2
                         /\ disk' = disk
                /\ worker'[i].pc = "failed" => worker[i].pc = "attempt"
      ]_vars

\* a Download call is about to make its third pass, having slept 2 and then 4
\* seconds
C15_Witness ==
    \E i \in DOMAIN worker :
        /\ worker[i].pc = "attempt"
        /\ worker[i].attempt = 2
        /\ worker[i].slept = <<2, 4>>

\* C16: a pass of the retry loop in which the primary URL answered with a
\* non-success status and the request for an alternate URL answered 200 is not
\* a failed pass: the file is written from that answer (unless the write itself
\* fails) and the call returns with Url set to the alternate URL.
C16_AlternateCounts ==
    \A i \in DOMAIN worker :
        worker[i].pc = "attempt" =>
            \A o \in AttemptOutcomes(worker[i].url, egErr) :
                (/\ o.primary = "non200"
                 /\ o.answered # <<>>
                 /\ o.answered[1] # worker[i].url
                 /\ ~o.ioErr)
                    => (o.ok /\ o.url = o.answered[1])

\* what does hold: an alternate that answers 200 in the loop over the
\* candidates (book.go 919-930) ends the pass in success
C16_CandidateCounts ==
    \A i \in DOMAIN worker :
        worker[i].pc = "attempt" =>
            \A o \in AttemptOutcomes(worker[i].url, egErr) :
                (/\ o.primary = "non200"
                 /\ o.answered # <<>>
                 /\ o.net <= 1 + Len(Candidates(worker[i].url))
                 /\ ~o.ioErr)
                    => (o.ok /\ o.url = o.answered[1] /\ o.url # worker[i].url)

\* C17: the download goroutines that have not returned number at most
\* args.Concurrency, which is at least 1; the capture goroutines that have not
\* returned, and the renders in flight, number at most min(4, args.Concurrency),
\* which is the capture limit and is never above args.Concurrency.
C17_BoundedPools ==
    /\ conc >= 1
    /\ Cardinality(Active) <= conc
    /\ Cardinality(CaptureActive) <= Min(4, conc)
    /\ RendersInFlight <= Min(4, conc)
    /\ \A c \in 1..MaxLimitArg :
          /\ ConcurrencyLimit(c) = Min(4, c)
          /\ ConcurrencyLimit(c) <= c

\* after a download of more images than args.Concurrency, the capture pool is
\* full and the next page waits for a slot
C17_Witness ==
    /\ phase = "capture"
    /\ Len(images) > conc
    /\ Cardinality(CaptureActive) = Min(4, conc)
    /\ capNext <= CaptureBatchLast(batchIndex)
    /\ pagesToCapture[capNext] \notin shots

\* C18: a failure of a progress-bar update or close does not change what
\* downloadImages returns: when no item of the call has failed, the call
\* returns the full list.
C18_TelemetryAdvisory ==
    (dlPc = "done" /\ images # <<>> /\ ~SomeItemFailed) =>
        /\ dlStatus = "ok"
        /\ Len(dlResult) = Len(images)

\* the stage sequences downloadPdf2 can have entered
ForwardLogs ==
    { <<>>,
      <<"manifest">>,
      <<"manifest", "download">>,
      <<"manifest", "download", "encode">>,
      <<"manifest", "download", "capture">>,
      <<"manifest", "download", "capture", "encode">> }

Entered(stage) == stage \in Range(phaseLog)

\* C19: downloadPdf2 enters its stages in the order manifest, download,
\* capture (interactive mode only), encode, each at most once; downloadImages
\* runs only in the download stage and captureInteractivePages only in the
\* capture stage, which is entered only after downloadImages has returned
\* success; the encoder is called only in the encode stage, which is entered
\* only after the capture stage has returned; after a failure of book.Get or
\* of downloadImages no later stage is entered.
C19_ForwardPhases ==
    /\ phaseLog \in ForwardLogs
    /\ dlPc \notin {"idle", "done"} => (phase = "images" /\ ~Entered("capture") /\ ~Entered("encode"))
    /\ dlPc # "idle" => Entered("download")
    /\ capPc \notin {"idle", "done"} => (phase = "capture" /\ ~Entered("encode"))
    /\ capPc # "idle" => Entered("capture")
    /\ (encoderCalls > 0 \/ encodeCall # NoEncode) => Entered("encode")
    /\ encoderCalls <= 1
    /\ Entered("capture") => (interactive /\ dlPc = "done" /\ dlStatus = "ok")
    /\ Entered("encode") =>
          /\ dlPc = "done" /\ dlStatus = "ok"
          /\ IF interactive
               THEN Entered("capture") /\ capPc = "done" /\ capStatus = "ok"
               ELSE capPc = "idle"
    /\ (phase = "done" /\ phaseLog = <<"manifest">> /\ pipeStatus = "err") =>
          (dlPc = "idle" /\ capPc = "idle" /\ encoderCalls = 0)
    /\ (dlPc = "done" /\ dlStatus # "ok") =>
          (~Entered("capture") /\ ~Entered("encode") /\ capPc = "idle" /\ encoderCalls = 0)

\* an interactive run went through the four stages and returned nil
C19_Witness ==
    /\ phase = "done"
    /\ pipeStatus = "ok"
    /\ phaseLog = <<"manifest", "download", "capture", "encode">>
    /\ Len(images) >= 2

\* C20: in interactive mode, when some requested page was captured and another
\* still fails after the retries, downloadPdf2 calls the encoder through
\* generateInteractivePDF and returns nil if the encoder succeeds; a page that
\* has a downloaded image and no capture is given by a downloaded image.
C20_PartialCapture ==
    (phase = "done" /\ interactive /\ capStatus = "ok" /\ StillFailing # {}) =>
        /\ encoderCalls = 1
        /\ encodeCall.fn = "generateInteractivePDF"
        /\ encodeCall.status \in {"ok", "err"}
        /\ (pipeStatus = "ok") <=> (pdf = "new")
        /\ pipeStatus \in {"ok", "err"}
        /\ \A p \in AssembledPages :
              (DownloadedOf(p) # {} /\ CapturedOf(p) = {}) =>
                  \E i \in DownloadedOf(p) :
                      JpgPath(dlResult[i].FullPath) \in Range(encoderInput)

\* page 1 was captured, page 2 failed in its worker and in the retry pass, and
\* the run returned nil with pages 2 and 3 given by their downloaded images
C20_Witness ==
    /\ phase = "done"
    /\ interactive
    /\ pipeStatus = "ok"
    /\ StillFailing = {2}
    /\ CapturedOf(1) # {}
    /\ DownloadedOf(2) # {} /\ CapturedOf(2) = {}
    /\ DownloadedOf(3) # {} /\ CapturedOf(3) = {}

\* a non-empty text of word characters
IsWordText(t) == t # <<>> /\ \A i \in 1..Len(t) : t[i] \in WordChars

\* "<account>/<book>": two non-empty word segments and one slash between them
IsTwoSegments(t) ==
    \E i \in 1..Len(t) :
        /\ t[i] = "/"
        /\ IsWordText(SubSeq(t, 1, i - 1))
        /\ IsWordText(SubSeq(t, i + 1, Len(t)))

\* t begins with the two segments id, which end where t ends or at a
\* character that is no word character
BeginsWith(t, id) ==
    /\ IsTwoSegments(id)
    /\ HasPrefix(t, id)
    /\ Len(t) > Len(id) => t[Len(id) + 1] \notin WordChars

Prefixes(t) == { SubSeq(t, 1, j) : j \in 0..Len(t) }

\* t is "https://host/" followed by a path whose first two segments are id
IsUrlOf(t, id) ==
    \E k \in 1..Len(t) :
        LET path == SubSeq(t, 5 + k, Len(t))
        IN  /\ HasPrefix(t, <<"https:", "/", "/">>)
            /\ Len(t) >= 4 + k
            /\ \A i \in 4..(3 + k) : t[i] # "/"
            /\ t[4 + k] = "/"
            /\ IsTwoSegments(id)
            /\ HasPrefix(path, id)
            /\ Len(path) > Len(id) => path[Len(id) + 1] = "/"

SubTexts(t) == { SubSeq(t, i, j) : i \in 1..(Len(t) + 1), j \in 0..Len(t) }

Stripped(name) == IF name # <<>> /\ name[1] = "./" THEN Tail(name) ELSE name

\* url is the root of the publication followed by the name without its
\* leading "./", with "files/large/" between the two unless the name begins
\* with "files/"
IsUrlFor(url, id, name) ==
    LET root == <<"https://online.fliphtml5.com/">> \o id \o <<"/">>
        rest == SubSeq(url, Len(root) + 1, Len(url))
    IN  /\ SubSeq(url, 1, Len(root)) = root
        /\ IF Stripped(name) # <<>> /\ Stripped(name)[1] = "files/"
             THEN rest = Stripped(name)
             ELSE rest = <<"files/", "large/">> \o Stripped(name)

\* C22: Get turns an image field that is a single string into a list of one
\* URL and a field that is a list of k strings into k URLs in the same order;
\* each URL is the root of the publication followed by the name without a
\* leading "./", and "files/large/" is put between the two once, unless the
\* name already begins with "files/"
C22_ImageUrls ==
    imageUrls.state = "built" =>
        /\ imagesField.kind = "string" =>
              /\ Len(imageUrls.urls) = 1
              /\ IsUrlFor(imageUrls.urls[1], parsedId.id, imagesField.elems[1].name)
        /\ (imagesField.kind = "list" /\ \A j \in DOMAIN imagesField.elems :
                                           imagesField.elems[j].str) =>
              /\ Len(imageUrls.urls) = Len(imagesField.elems)
              /\ \A j \in DOMAIN imagesField.elems :
                    IsUrlFor(imageUrls.urls[j], parsedId.id, imagesField.elems[j].name)

\* ["./files/x", "x"] of book a/aa has given ".../a/aa/files/x" and
\* ".../a/aa/files/large/x"
C22_Witness ==
    /\ imageUrls.state = "built"
    /\ parsedId.id = <<"a", "/", "a", "a">>
    /\ imagesField = [kind |-> "list",
                      elems |-> <<[str |-> TRUE, name |-> <<"./", "files/", "x">>],
                                  [str |-> TRUE, name |-> <<"x">>]>>]
    /\ imageUrls.urls =
          << <<"https://online.fliphtml5.com/", "a", "/", "a", "a", "/", "files/", "x">>,
             <<"https://online.fliphtml5.com/", "a", "/", "a", "a", "/", "files/", "large/", "x">> >>

\* the calls of CaptureInteractivePageQuiet that are open
OpenCalls ==
    { capWorker[k].call : k \in { j \in DOMAIN capWorker : capWorker[j].pc = "quiet" } }
      \cup (IF retryCall.pc # "none" THEN {retryCall} ELSE {})

\* C28: each pass of CaptureInteractivePageQuiet has a deadline of its own:
\* the second pass never begins under a deadline that has already passed, so
\* it is run against the browser whatever time the first pass took
C28_OwnDeadline ==
    \A q \in OpenCalls : (q.pc = "run" /\ q.attempt > 0) => ~q.expired

\* a render is under way whose first pass lasted until the deadline
StuckRender ==
    \E k \in DOMAIN capWorker :
        /\ capWorker[k].pc = "quiet"
        /\ capWorker[k].call.pc = "run"
        /\ capWorker[k].call.expired

\* C27: a goroutine of the capture pool that has started returns, with its
\* page recorded as captured or as failed, whatever the browser does; so the
\* wait for each batch ends and captureInteractivePages returns
C27_CaptureReturns ==
    /\ \A k \in 1..MaxLivePages :
          [](k \in DOMAIN capWorker /\ ~CaptureFinished(capWorker[k])
               => <>(k \in DOMAIN capWorker /\ CaptureFinished(capWorker[k])))
    /\ [](capPc = "loop" => <>(capPc # "loop"))
    /\ <>(capPc = "done")

\* the browser did not answer within the deadline while another page of the
\* batch waits for the slot
C27_Witness ==
    /\ StuckRender
    /\ capPc = "loop"
    /\ capNext <= CaptureBatchLast(batchIndex)
    /\ Cardinality(CaptureActive) = ConcurrencyLimit(conc)

\* the positions in pagesToCapture whose goroutine has a browser session
Sessions ==
    { k \in DOMAIN capWorker :
        capWorker[k].pc = "quiet" /\ SessionOpen(capWorker[k].call) }

\* position k of pagesToCapture belongs to batch b
InBatch(k, b) ==
    /\ k > b * CaptureBatchSize(batchArg, conc)
    /\ k <= (b + 1) * CaptureBatchSize(batchArg, conc)

\* the caller is in the loop over the pages of a batch (main.go 297-396) or
\* at its eg.Wait (main.go 399)
InBatchLoop ==
    capPc \in {"loop", "skipLock", "skipAppend", "oddLock", "oddAppend"}

\* C29: a browser session is open only for a page of the batch being
\* processed, so every session of a batch is torn down before the first one
\* of the next batch is opened and none serves pages of two batches; the
\* serial retry pass opens its sessions when those of the batches are gone
C29_SessionsPerBatch ==
    /\ \A k \in Sessions : InBatchLoop /\ InBatch(k, batchIndex)
    /\ SessionOpen(retryCall) => Sessions = {}

\* a session of the second batch is open
C29_Witness ==
    /\ capPc = "loop"
    /\ batchIndex = 1
    /\ Sessions # {}
    /\ \E k \in DOMAIN capWorker : InBatch(k, 0) /\ capWorker[k].pc \in {"captured", "failed"}

\* C30: of a book with more than ImageCap images downloadPdf2 downloads the
\* first ImageCap in overall order, 1 to ImageCap, and goes on without an
\* error; of a book with at most ImageCap images it downloads every one
C30_ImageCap ==
    LET all == FindAllImages(book)
    IN  /\ dlPc \notin {"idle", "find"} =>
              /\ Len(images) = IF Len(all) > ImageCap THEN ImageCap ELSE Len(all)
              /\ \A k \in DOMAIN images : images[k] = all[k] /\ images[k].OverallOrder = k
        /\ dlStatus = "ok" =>
              /\ Len(dlResult) = Len(images)
              /\ \A k \in DOMAIN dlResult :
                    /\ dlResult[k].OverallOrder = k
                    /\ SamePlace(dlResult[k], all[k])
                    /\ ImagePath(all[k]) \in disk
        /\ \A k \in DOMAIN all : k > ImageCap => ImagePath(all[k]) \notin disk

\* the PDF of a book of more than ImageCap images has been written from its
\* first ImageCap images
C30_Witness ==
    /\ Len(FindAllImages(book)) > ImageCap
    /\ pipeStatus = "ok"
    /\ Len(dlResult) = ImageCap
    /\ encoderCalls = 1

\* C24: in the download and in the capture phase an item of a later batch is
\* not started (no existence check, request or render) before every
\* goroutine of the batch being processed has returned: the items after the
\* current batch are untouched, those of the batches before it are finished,
\* and the loop has handed out no item beyond the current batch
C24_BatchBarrier ==
    /\ \A i \in DOMAIN worker :
          /\ i > BatchLast(batchIdx, Len(images)) => worker[i].pc = "idle"
          /\ i < BatchFirst(batchIdx, Len(images)) =>
                worker[i].pc \in {"done", "barfailed", "failed"}
    /\ nextIdx <= BatchLast(batchIdx, Len(images)) + 1
    /\ \A k \in DOMAIN capWorker :
          /\ k > CaptureBatchLast(batchIndex) => capWorker[k].pc = "idle"
          /\ k <= batchIndex * CaptureBatchSize(batchArg, conc) =>
                capWorker[k].pc \in {"ondisk", "captured", "failed", "retried"}
    /\ capNext <= CaptureBatchLast(batchIndex) + 1

\* the second batch of downloads has been made and a page of the second
\* capture batch is being rendered
C24_Witness ==
    /\ batchIdx = 1
    /\ dlStatus = "ok"
    /\ batchIndex = 1
    /\ \E k \in DOMAIN capWorker : InBatch(k, 1) /\ capWorker[k].pc = "quiet"

\* the goroutines of downloadImages between mutex.Lock() and mutex.Unlock()
DownloadHolders == { i \in DOMAIN worker : worker[i].pc = "append" }

\* the goroutines of captureInteractivePages between Lock and Unlock
CaptureHolders == { k \in DOMAIN capWorker : capWorker[k].pc = "append" }

\* the caller of captureInteractivePages is between Lock and Unlock
CallerHolds == capPc \in {"skipAppend", "oddAppend", "retryAppend"}

EntriesFor(list, p) == { r \in DOMAIN list : list[r].PageNumber = p }

\* in every state at most one goroutine is between Lock and Unlock, it is the
\* one the mutex is held by, none is there while it checks a file, makes a
\* request, sleeps or drives the browser, and the lists hold one record for
\* every goroutine that has recorded its item
C25_MutexState ==
    /\ Cardinality(DownloadHolders) <= 1
    /\ mutex = 0 <=> DownloadHolders = {}
    /\ mutex # 0 => DownloadHolders = {mutex}
    /\ Cardinality(CaptureHolders) + (IF CallerHolds THEN 1 ELSE 0) <= 1
    /\ capMutex = 0 <=> (CaptureHolders = {} /\ ~CallerHolds)
    /\ capMutex > 0 => CaptureHolders = {capMutex}
    /\ retryCall.pc \in {"stat", "run", "write"} => capMutex = 0
    /\ Len(downloadedImages) =
          Cardinality({ i \in DOMAIN worker : worker[i].pc \in {"done", "barfailed"} })
    /\ \A k \in DOMAIN capWorker :
          /\ capWorker[k].pc \in {"ondisk", "captured", "retried"} =>
                Cardinality(EntriesFor(capturedPages, pagesToCapture[k])) = 1
          /\ capWorker[k].pc \in {"failed", "retried"} =>
                Cardinality({ r \in DOMAIN failedPages :
                                failedPages[r] = pagesToCapture[k] }) = 1

\* a step that makes one of the lists longer is taken by the holder of the
\* mutex of its phase
C25_MutexStep ==
    /\ Len(downloadedImages') > Len(downloadedImages) =>
          (mutex # 0 /\ worker[mutex].pc = "append")
    /\ (Len(capturedPages') > Len(capturedPages) \/ Len(failedPages') > Len(failedPages)) =>
          capMutex # 0

\* C25: every append to downloadedImages, capturedPages and failedPages is
\* made under the mutex of its phase, which at most one goroutine holds and
\* none holds during network I/O, browser I/O or a sleep; so no append is
\* lost and the lists hold one record for every recorded item
C25_AppendsUnderMutex == []C25_MutexState /\ [][C25_MutexStep]_vars

\* the downloads have been recorded, and a capture goroutine waits for the
\* mutex another one holds
C25_Witness ==
    /\ Len(downloadedImages) >= 2
    /\ capMutex > 0
    /\ \E k \in DOMAIN capWorker : capWorker[k].pc = "lock"

\* no request is under way for an image whose file exists, and no browser
\* session is open for a page whose screenshot exists
C23_NoWorkOnExisting ==
    /\ \A i \in DOMAIN worker :
          worker[i].pc = "attempt" => ImagePath(images[i]) \notin disk
    /\ \A k \in DOMAIN capWorker :
          (capWorker[k].pc = "quiet" /\ SessionOpen(capWorker[k].call)) =>
              pagesToCapture[k] \notin shots
    /\ SessionOpen(retryCall) => failedPages[retryPos] \notin shots

\* no step removes a file; the existence check of a download whose file is
\* there leads to the append with no request and no change of the files; the
\* caller starts no goroutine for a page whose screenshot is there; and the
\* existence check of a capture call whose screenshot is there makes the call
\* return it with no pass through the browser
C23_SkipStep ==
    /\ disk \subseteq disk'
    /\ shots \subseteq shots'
    /\ \A i \in DOMAIN worker :
          (/\ worker[i].pc = "stat"
           /\ ImagePath(images[i]) \in disk
           /\ i \in DOMAIN worker'
           /\ worker'[i] # worker[i]) =>
              /\ worker'[i].pc = "lock"
              /\ netRequests' = netRequests
              /\ disk' = disk
    /\ (/\ capPc = "loop"
        /\ capNext \in DOMAIN pagesToCapture
        /\ pagesToCapture[capNext] \in shots
        /\ capWorker' # capWorker) =>
           \A k \in DOMAIN capWorker : k >= capNext => capWorker'[k].pc # "quiet"
    /\ (/\ retryCall.pc = "stat"
        /\ failedPages[retryPos] \in shots
        /\ retryCall' # retryCall) =>
           (retryCall'.pc = "ok" /\ shots' = shots)

\* C23: a download or capture invoked for a file that exists makes no
\* request, opens no browser session and does not write, truncate or delete
\* the file, and the item is recorded as a success; a file that has been
\* written is not written again in the run
C23_SkipIfExists == []C23_NoWorkOnExisting /\ [][C23_SkipStep]_vars

\* the only image was there and has been recorded without a request, and the
\* screenshot of page 2 was there and has been recorded by the caller
C23_Witness ==
    /\ Len(images) = 1
    /\ DOMAIN worker = {1}
    /\ worker[1].pc = "done"
    /\ netRequests = 0
    /\ ImagePath(images[1]) \in disk
    /\ \E k \in DOMAIN capWorker :
          pagesToCapture[k] = 2 /\ capWorker[k].pc = "ondisk" /\ 2 \in shots

\* C26: once the context given to downloadPdf2 is cancelled, the goroutines
\* of the batch in progress stop at once: none begins another attempt or
\* another backoff sleep, and no further file is written
C26_AbortOnCancel ==
    [][ctxDone =>
          /\ disk' = disk
          /\ \A i \in DOMAIN worker \cap DOMAIN worker' :
                /\ worker'[i].attempt <= worker[i].attempt
                /\ Len(worker'[i].slept) <= Len(worker[i].slept)]_vars

----------------------------------------------------------------------------
(* C31: an existing PDF without --force *)

\* the PDF that was there when downloadPdf2 was called is still there and
\* --force was not given: the encoder writes "new" or "broken", never "old"
C31_OldPdfKept == pdf = "old" /\ ~force

\* C31 as the specification states it: with the PDF in place and Force false
\* the call returns without error
C31_AlwaysNil ==
    (C31_OldPdfKept /\ phase = "done") => pipeStatus = "skipped"

C31_SkipState ==
    C31_OldPdfKept =>
        /\ phase \in {"get", "stat", "done"}
        /\ dlPc = "idle" /\ capPc = "idle"
        /\ netRequests = 0
        /\ downloadedImages = <<>> /\ capturedPages = <<>>
        /\ retryCalls = <<>> /\ capWorker = <<>> /\ worker = <<>>
        /\ encoderCalls = 0 /\ encodeCall = NoEncode
        /\ (phase = "done" => pipeStatus \in {"skipped", "err"})

C31_SkipStep ==
    C31_OldPdfKept =>
        /\ pdf' = pdf
        /\ disk' = disk
        /\ shots' = shots
        /\ (phase = "get" =>
               \/ phase' = "stat" /\ pipeStatus' = "none"
               \/ phase' = "done" /\ pipeStatus' = "err")
        /\ (phase = "stat" => phase' = "done" /\ pipeStatus' = "skipped")

\* C31, amended: if the target PDF exists when downloadPdf2 starts and Force is
\* false, no image is downloaded, no page is captured, the encoder is not
\* invoked and the PDF is left unchanged; the call returns without error once
\* book.Get has fetched the manifest, and returns the error of book.Get when it
\* has not
C31_ExistingPdfSkipped == []C31_SkipState /\ [][C31_SkipStep]_vars

\* the call has returned nil from the check of main.go 550, the book having
\* images and the run being interactive
C31_Witness ==
    /\ C31_OldPdfKept
    /\ phase = "done"
    /\ pipeStatus = "skipped"
    /\ interactive
    /\ Len(FindAllImages(book)) >= 1

----------------------------------------------------------------------------
(* C32: downloadImages of an empty list *)

\* C32: downloadImages called with an empty descriptor list returns an empty
\* list and no error
C32_EmptyListReturns ==
    (dlPc = "done" /\ Len(images) = 0) => (dlStatus = "ok" /\ dlResult = <<>>)

----------------------------------------------------------------------------
(* C33: the captured list while captureInteractivePages runs *)

\* C33: at every point of captureInteractivePages on a book of at least one
\* page, capturedPages holds at most one entry per page number, every entry has
\* PageNumber = OverallOrder within 1..pageCount, and a page recorded as failed
\* has no entry from the primary pass: it has none until the serial retry pass
\* has reached it, and then only the one that pass appended
C33_CapturedList ==
    PageCount >= 1 =>
        /\ \A i, j \in DOMAIN capturedPages :
              capturedPages[i].PageNumber = capturedPages[j].PageNumber => i = j
        /\ \A i \in DOMAIN capturedPages :
              /\ capturedPages[i].PageNumber = capturedPages[i].OverallOrder
              /\ capturedPages[i].PageNumber \in 1..PageCount
        /\ \A k \in DOMAIN failedPages :
              /\ k >= retryPos => EntriesOf(failedPages[k]) = {}
              /\ EntriesOf(failedPages[k]) # {} =>
                    capWorker[PositionOf(failedPages[k])].pc = "retried"
              /\ \A j \in DOMAIN failedPages : failedPages[j] = failedPages[k] => j = k

\* the call has returned after a retry pass that captured a spread: the list
\* holds pages from the primary pass and the two pages of the retried spread
C33_Witness ==
    /\ capPc = "done"
    /\ capStatus = "ok"
    /\ PageCount >= 5
    /\ \E k \in DOMAIN failedPages :
          /\ HasOddPage(failedPages[k], PageCount)
          /\ EntriesOf(failedPages[k]) # {}
          /\ EntriesOf(failedPages[k] + 1) # {}
    /\ \E k \in DOMAIN capWorker : capWorker[k].pc = "captured"
    /\ \E k \in DOMAIN capWorker : capWorker[k].pc = "ondisk"

----------------------------------------------------------------------------
(* C34: full coverage by the capture phase *)

\* C34: if every selected page was rendered or found on disk, the capture
\* phase returns exactly one entry for each page 1..pageCount, ascending by
\* page number, from the 1 + floor(pageCount / 2) pages it selected
C34_FullCoverage ==
    (/\ capPc = "done"
     /\ capStatus = "ok"
     /\ \A k \in DOMAIN capWorker : IsSuccess(k)) =>
        /\ Len(capResult) = PageCount
        /\ \A p \in 1..PageCount :
              capResult[p].PageNumber = p /\ capResult[p].OverallOrder = p
        /\ Len(pagesToCapture) = 1 + (PageCount \div 2)
        /\ DOMAIN capWorker = DOMAIN pagesToCapture

\* a book of three pages: page 1 was found on disk or rendered, the spread of
\* page 2 was rendered, and three entries come back from two selected pages
C34_Witness ==
    /\ capPc = "done"
    /\ capStatus = "ok"
    /\ PageCount = 3
    /\ Len(pagesToCapture) = 2
    /\ capWorker[2].pc = "captured"
    /\ capWorker[1].pc \in {"ondisk", "captured"}
    /\ Len(capResult) = 3

----------------------------------------------------------------------------
(* C35: one output file per work item *)

\* C35: two goroutines in flight that were given different image descriptors
\* or different pages to capture have created their files at different paths
C35_DistinctFiles ==
    \A v, w \in DOMAIN workItems :
        (/\ workItems[v] # workItems[w]
         /\ openedFiles[v] # <<>>
         /\ openedFiles[w] # <<>>) => openedFiles[v] # openedFiles[w]

\* image 11 of page 1 and image 1 of page 11 are both being written
C35_Witness ==
    /\ DOMAIN workItems = {1, 2}
    /\ workItems[1] = [kind |-> "image", PageNumber |-> 1, ImageNumber |-> 11]
    /\ workItems[2] = [kind |-> "image", PageNumber |-> 11, ImageNumber |-> 1]
    /\ openedFiles[1] = <<"imageOutputRoot/", "1", "-", "1", "1", ".jpg">>
    /\ openedFiles[2] = <<"imageOutputRoot/", "1", "1", "-", "1", ".jpg">>

----------------------------------------------------------------------------
(* C36: render attempts are bounded *)

\* the calls of CaptureInteractivePageQuiet that are open or were open
C36_Calls == {capWorker[k].call : k \in DOMAIN capWorker} \cup {retryCall}

\* passes are numbered 0 and 1 (book.go 519); a page is given to the retry pass
\* at most once, and only after its goroutine of the primary pass recorded it
\* as failed
C36_BoundedState ==
    /\ \A q \in C36_Calls : q.attempt \in 0..(CaptureMaxRetries - 1)
    /\ \A p \in DOMAIN retryCalls : retryCalls[p] <= 1
    /\ \A k \in DOMAIN capWorker :
          (pagesToCapture[k] \in DOMAIN retryCalls /\ retryCalls[pagesToCapture[k]] = 1)
              => capWorker[k].pc \in {"failed", "retried"}

\* what one step does to a call: a pass either yields the screenshot, after
\* which the call only writes the file and returns, or it is followed by the
\* next pass or by the error return
C36_CallStep(q, r) ==
    /\ (q.pc = "run" /\ r # q) =>
          \/ r.pc = "write"
          \/ r.pc = "run" /\ r.attempt = q.attempt + 1
          \/ r.pc = "err" /\ q.attempt = CaptureMaxRetries - 1
    /\ q.pc = "write" => r.pc \in {"write", "ok", "err"}
    /\ (r.pc = "run" /\ q.pc # "run") => (q.pc = "stat" /\ r.attempt = 0)

C36_BoundedStep ==
    /\ C36_CallStep(retryCall, retryCall')
    /\ \A k \in DOMAIN capWorker \cap DOMAIN capWorker' :
          /\ C36_CallStep(capWorker[k].call, capWorker'[k].call)
          \* the goroutine of a page makes its call once
          /\ (capWorker'[k].pc = "quiet" /\ capWorker[k].pc # "quiet")
                => capWorker[k].pc = "idle"
          /\ capWorker[k].pc # "idle" => capWorker'[k].pc # "idle"
    /\ \A p \in DOMAIN retryCalls \cap DOMAIN retryCalls' :
          retryCalls'[p] >= retryCalls[p]

\* C36: one call of CaptureInteractivePageQuiet makes at most 2 passes and
\* stops at the first pass that yields a screenshot; a page is passed to it at
\* most once in the primary pass and at most once in the serial retry pass,
\* which bounds the renders of a page by 2 + 2 = 4
C36_BoundedRenders == []C36_BoundedState /\ [][C36_BoundedStep]_vars

\* the retry pass is making its second pass for a page whose goroutine had
\* failed after two passes
C36_Witness ==
    /\ capPc = "retry"
    /\ retryCall.pc = "run"
    /\ retryCall.attempt = CaptureMaxRetries - 1
    /\ retryCalls[failedPages[retryPos]] = 1
    /\ capWorker[PositionOf(failedPages[retryPos])].pc = "failed"

----------------------------------------------------------------------------
(* C37: an interactive run without captures *)

\* the capture phase has returned and every requested page failed
C37_AllFailed ==
    /\ capPc = "done"
    /\ \A k \in DOMAIN capWorker : capWorker[k].pc = "failed"

----------------------------------------------------------------------------
(* C38: no partial image file *)

\* C38: a call of PageImage.Download that returns an error leaves no file at
\* the descriptor's path (a file that was there when it was called makes it
\* return without error), and outside a pass that is writing it the file at
\* the path is absent or was written completely
C38_NoPartialFile ==
    \A w \in DOMAIN dlCalls :
        /\ dlCalls[w].pc = "err" => dlFiles[w] = "absent"
        /\ dlCalls[w].pc = "ok" => dlFiles[w] = "complete"
        /\ dlFiles[w] = "partial" => dlCalls[w].pc \in {"copy", "close"}

\* the third pass of a goroutine stopped in the middle of the body copy when
\* batchCtx was cancelled by the failure of the other goroutine; its file was
\* removed and both calls have returned their errors
C38_Witness ==
    /\ DOMAIN dlCalls = {1, 2}
    /\ batchCtxDone
    /\ dlCalls[1] = [pc |-> "err", attempt |-> 2, lastErr |-> "copy", copyErr |-> FALSE]
    /\ dlCalls[2].pc = "err"
    /\ dlCalls[2].lastErr = "status"
    /\ dlFiles = <<"absent", "absent">>

----------------------------------------------------------------------------
(* C39: typing on the URL entry screen *)

\* the single-download URL entry screen
C39_UrlEntry(m) == m.selected /\ m.downloadType = "single"

\* C39: on the URL entry screen every printable character key press appends
\* exactly that character to the URL and keeps the screen on URL entry
C39_PrintableAppends ==
    (C39_UrlEntry(ui) /\ ~uiQuit) =>
        \A key \in Runes :
            /\ Update(ui, key).m.url = Append(ui.url, key)
            /\ C39_UrlEntry(Update(ui, key).m)
            /\ ~Update(ui, key).quit

----------------------------------------------------------------------------
(* C40: de-duplication in downloadBatch *)

\* C40: once a book URL has been downloaded successfully, every later book file
\* naming the same URL is skipped as already downloaded, with or without the
\* "-i" suffix and whatever SkipExisting is
C40_LaterFilesSkipped ==
    \A i, j \in DOMAIN outcomes :
        (i < j /\ outcomes[i] = "downloaded" /\ txtFiles[j] = txtFiles[i]) =>
            outcomes[j] = "skipped-url"

====
